---- MODULE Spec2Model ----
(***************************************************************************)
(* Player (player2x/src/ffplayer.rs), its decoder task, and the Room       *)
(* controller (bot/src/player/mod.rs) with its PlaylistTracker             *)
(* (bot/src/player/playlistv2.rs).                                         *)
(*                                                                         *)
(* Spec        the Room controller task run_room, the Player it owns, the  *)
(*             decoder task the Player spawns, the callers of the proxy.   *)
(* SpecPlayer  one Player driven directly through play / pause / seek,     *)
(*             with its decoder task.                                      *)
(* SpecGraph   Core::add_output / add_input / add_input_to building the     *)
(*             audio graph (audiopipe/src/core.rs).                        *)
(* SpecRing    one Input: its ring, its producer and the mixer's tick;     *)
(*             SpecRingFair adds that the tick keeps coming.               *)
(* SpecTracker one PlaylistTracker driven directly.                        *)
(* SpecShuffle one PlaylistTracker in shuffle mode over four tracks.       *)
(* SpecAdd     add_track / add_playlist on one PlaylistTracker.            *)
(* SpecTick    Core::tick over one Input routed to one Output, with the    *)
(*             producer of the Input and the reader of the Output.         *)
(* SpecEncoder the encoder loop (mumble/src/tasks/encoder.rs).             *)
(* SpecMix     Core::tick over two Inputs and the Output they may feed.    *)
(* SpecRestart one PlaylistTracker restarted, also past u16::MAX.          *)
(* SpecNesting one PlaylistTracker over nested playlists and the calls     *)
(*             that set a nesting mode.                                    *)
(* SpecPipe    the byte pipe of audiopipe/src/buffer.rs with its writer    *)
(*             and its reader; SpecPipeFair adds that both are polled.     *)
(*                                                                         *)
(* Option<T> is a sequence of length at most one: None is <<>>, Some(x) is *)
(* <<x>>.  Durations and Instants are integers: clock units, UnitsPerSec to *)
(* the second.                                                             *)
(***************************************************************************)
EXTENDS Integers, Sequences, FiniteSets, TLC

\* ------------------------------------------------------------------ bounds
\* the wall clock stops advancing at MaxTime
MaxTime == 2
\* number of PlayerEvents one run may emit per Player
MaxEvents == 3
\* number of requests the callers send through the proxy in one run
MaxRequests == 3
\* number of entries Room::add_playlist may grow the root playlist to
MaxEntries == 3
\* number of Events the controller emits in one run
MaxRoomEvents == 5

\* number of nodes add_output / add_input / add_input_to may add to the graph
MaxNodes == 5
\* slots of an Input ring (512 in add_input_to), scaled down
InputRingLen == 3
\* frames per block (dasp_graph Buffer::LEN, 64), scaled down
BufferLen == 2
\* number of frames the producer offers in one run
MaxFrames == 6
\* longest slice a producer hands to poll_write
MaxWrite == 2

\* number of direct calls of PlaylistTracker::next in one run
MaxCalls == 6
\* number of PlaylistTracker::restart calls in one run
MaxRestarts == 1

\* number of add_track and add_playlist calls in one run
MaxAdds == 2

\* the blocks of Buffer::LEN frames an Output ring holds (8192 / 64 in the source)
OutputBlocks == 6
\* number of ticks of the graph in one run
MaxTicks == 8
\* number of frames read from the OutputSignal in one run
MaxPulls == 2
\* blocks the producers of two mixed Inputs write, and ticks over them
MaxMixWrites == 4
MaxMixTicks == 2

\* buf_size of the byte pipe, the bytes its writer has to write in all, and
\* the longest slice one poll_write or poll_read is handed
BufSize == 3
MaxPipeBytes == 6
MaxSlice == 2

\* pcm_buf.len(), the frames of one encoder block (480 in the source)
PcmBufLen == 2
\* the packets the channel behind voice_tx holds (20 in the source)
VoiceChannelLen == 2
\* the packets the encoder sends in one run
MaxPackets == 3

\* clock units per second: Durations are counted in 1/UnitsPerSec seconds
UnitsPerSec == 2

\* ------------------------------------------------------------- constants
\* the buffer argument of the proxy's futures mpsc::channel
ChannelBuffer == 20
\* the messages that channel holds before a send waits: its buffer and one
\* slot for each Sender, of which the proxy keeps one behind its Mutex
ChannelCapacity == ChannelBuffer + 1

None == <<>>
Some(x) == <<x>>
Last(s) == s[Len(s)]

VARIABLES
    now,              \* Instant::now()
    duration,         \* Player.duration
    position,         \* State.position
    playing_state,    \* State.playing_state: Option<PlayingState>
    playing_tracker,  \* State.playing_tracker is Some (the JoinHandle and tx)
    task_pc,          \* the spawned decoder task: none, start, select, finish, done
    task_r,           \* the value r of the task's select!: none, eof, err, cancel
    task_position,    \* the task's captured `position`
    task_now,         \* the task's captured `now`
    task_ss,          \* the -ss argument ffpipe formats from start_at(position)
    cancel,           \* the oneshot channel (tx, rx): none, open, sent, closed, dropped
    player_events,    \* everything sent on Player.sender, in order
    inputs,           \* running flags of the Input nodes attached to audio_out;
                      \* the last one is the pipe of the current Player
    pc,               \* position of the caller (controller task or direct caller)
    ret,              \* continuations of the caller's pending calls
    cur,              \* the caller's locals: the message or event being handled
    player,           \* RoomService.player: Option<Player>
    data_rx,          \* RoomService.player_receiver
    loc_rx,           \* run_room's local player_receiver
    room_events,      \* everything sent on RoomService.event_tx, in order
    requests,         \* messages queued in the proxy's mpsc channel
    sent,             \* number of requests sent so far
    replies,          \* what each caller got back on its oneshot callback
    chan_open,        \* some Room1 sender is alive
    crash,            \* why the caller panicked, if it did
    tracker,          \* Shared.playlist: the PlaylistTracker
    graph,            \* CoreData.graph: its nodes by NodeIndex and its edges
    default_output,   \* CoreData.default_output: Option<NodeIndex>
    core_poisoned,    \* the Mutex around CoreData is poisoned: a call panicked
                      \* while it held the lock
    buffer,           \* AudioSourceShared1.buffer of one Input: its Bounded ring
    write_waker,      \* AudioSourceShared1.write_waker: Option<Waker>
    producer,         \* the task writing to that Input: idle, ready, pending, woken
    offered,          \* number of frames the producer has pushed so far
    output,           \* the block InputNode::process wrote at the last tick
    delivered,        \* every frame popped from the ring by a tick, in order
    returned,         \* what each direct call of PlaylistTracker::next returned
    out_buffer,       \* OutputNodeShared.buffer of the Output: its Bounded ring
    ticked,           \* what the nodes counted and pushed in the latest tick
    pulled,           \* the frames OutputSignal::next has returned, in order
    sources,          \* AudioSourceShared of Input nodes 2, 3, ...: flag and ring
    core_run,         \* the Core::run task: where it is in its tick, what it holds
    last_was_empty,   \* the encoder loop's last_was_empty
    pcm_buf,          \* the encoder's pcm_buf
    taken,            \* the frames the encoder took from its pipe in the iteration
                      \* it is in or, between two iterations, in the last one
    voice_tx,         \* the channel behind voice_tx: the packets queued, whether
                      \* its receiver is alive, the packets accepted and the last
    enc_run,          \* the encoder task: where it is in its loop and its locals
    shared,           \* buffer.rs Shared: buffer, closed, write_notify, read_notify
    writer,           \* the task holding the BufferInput: idle, pending, woken, gone
    reader,           \* the task holding the BufferOutput: idle, pending, woken, eof
    written           \* number of bytes the writer has put into the pipe

player_vars == <<duration, position, playing_state, playing_tracker, task_pc,
                 task_r, task_position, task_now, task_ss, cancel, player_events>>
room_vars == <<player, data_rx, loc_rx, room_events, requests, sent, replies,
               chan_open, tracker>>
graph_vars == <<graph, default_output, core_poisoned>>
ring_vars == <<buffer, write_waker, producer, offered, output, delivered>>
mix_vars == <<out_buffer, ticked, pulled, sources, core_run>>
enc_vars == <<last_was_empty, pcm_buf, taken, voice_tx, enc_run>>
pipe_vars == <<shared, writer, reader, written>>
audio_vars == <<graph_vars, ring_vars, mix_vars, enc_vars, pipe_vars>>
unit_vars == <<audio_vars, returned>>
program_vars == <<now, player_vars, pc, ret, cur, crash, room_vars, returned, mix_vars,
                  enc_vars, pipe_vars>>
vars == <<now, player_vars, inputs, pc, ret, cur, crash, room_vars, unit_vars>>

\* --------------------------------------------------------------- events
\* PlayerEvent::Playing { now, pos }
Playing(n, p) == [type |-> "Playing", now |-> n, pos |-> p]
\* PlayerEvent::Paused { now, pos, stopped }; arm says which arm of `match r`
\* sent it (ffplayer.rs:157 "ok", ffplayer.rs:164 "err")
Paused(n, p, s, a) == [type |-> "Paused", now |-> n, pos |-> p, stopped |-> s, arm |-> a]

\* a broadcast::Receiver<PlayerEvent>: the events not yet received and whether
\* a sender of its channel is still alive
Receiver == [queue |-> <<>>, open |-> TRUE]

\* broadcast::Sender::send as seen by one receiver slot
Deliver(rx, e) ==
    IF rx # None /\ rx[1].open
    THEN Some([rx[1] EXCEPT !.queue = Append(@, e)])
    ELSE rx

\* every sender of the current Player's channel is gone
CloseRx(rx) == IF rx # None THEN Some([rx[1] EXCEPT !.open = FALSE]) ELSE rx

\* sender.send(e): the event reaches the log and every receiver of the channel
Emit(e) ==
    /\ player_events' = Append(player_events, e)
    /\ data_rx' = Deliver(data_rx, e)
    /\ loc_rx' = Deliver(loc_rx, e)

\* AudioSource::set_running on the current Player's pipe
set_running(b) == inputs' = [inputs EXCEPT ![Len(inputs)] = b]
running == inputs[Len(inputs)]

\* ---------------------------------------------------------------- Player
\* the fields Player::new sets, given the probed duration
PlayerNew(d) ==
    /\ duration' = d
    /\ position' = 0
    /\ playing_state' = None
    /\ playing_tracker' = FALSE
    /\ task_pc' = "none"
    /\ task_r' = "none"
    /\ task_position' = 0
    /\ task_now' = 0
    /\ task_ss' = 0
    /\ cancel' = "none"
    /\ player_events' = <<>>

\* Player::is_playing
is_playing == playing_tracker

\* position(state) with the offset left out while playing
position_of_without_offset ==
    IF playing_state = None THEN position
    ELSE now - playing_state[1].playing_since

\* position(state)
position_of ==
    IF playing_state = None THEN position
    ELSE position + (now - playing_state[1].playing_since)

\* Duration::as_secs: whole seconds, the fraction dropped
as_secs(d) == d \div UnitsPerSec

\* play() with the decoder started at zero instead of state.position
play_from_zero(p) ==
    IF playing_state # None
    THEN UNCHANGED <<playing_state, playing_tracker, task_pc, task_r,
                     task_position, task_now, task_ss, cancel>>
    ELSE /\ task_pc' = "start"
         /\ task_r' = "none"
         /\ task_position' = 0
         /\ task_now' = now
         /\ task_ss' = as_secs(0)
         /\ cancel' = "open"
         /\ playing_state' = Some([playing_since |-> now])
         /\ playing_tracker' = TRUE

\* play() without the check of playing_state: it spawns a task whenever
\* it is called
play_always(p) ==
    /\ task_pc' = "start"
    /\ task_r' = "none"
    /\ task_position' = p
    /\ task_now' = now
    /\ task_ss' = as_secs(p)
    /\ cancel' = "open"
    /\ playing_state' = Some([playing_since |-> now])
    /\ playing_tracker' = TRUE

\* Player::play, the whole call: it holds the state lock from entry to return;
\* p is state.position as the call finds it
play(p) ==
    IF playing_state # None
    THEN UNCHANGED <<playing_state, playing_tracker, task_pc, task_r,
                     task_position, task_now, task_ss, cancel>>
    ELSE /\ task_pc' = "start"
         /\ task_r' = "none"
         /\ task_position' = p
         /\ task_now' = now
         /\ task_ss' = as_secs(p)
         /\ cancel' = "open"
         /\ playing_state' = Some([playing_since |-> now])
         /\ playing_tracker' = TRUE

\* the caller returns from the call it is in
Return ==
    /\ pc' = Head(ret)
    /\ ret' = Tail(ret)

\* the oneshot sender when the Player is dropped: it is kept in State,
\* behind the Arc of which the decoder task holds a clone, so it outlives the
\* Player and the task's rx does not complete
DropTx(c) == c

\* the controller task ends (panic or return): RoomService and the request
\* receiver are dropped, and with them the Player, both event receivers, the
\* queued messages and their callbacks
DropRoom ==
    /\ player' = None
    /\ data_rx' = None
    /\ loc_rx' = None
    /\ requests' = <<>>
    /\ replies' = [i \in DOMAIN replies |->
                      IF replies[i] = "pending" THEN "canceled" ELSE replies[i]]
    /\ UNCHANGED <<room_events, sent, chan_open, tracker>>

\* the caller panics
Panic(why) ==
    /\ pc' = "panicked"
    /\ crash' = why
    /\ ret' = <<>>

\* pause() without the early return on an absent tracker
pause_lock_no_return ==
    /\ pc = "pause"
    /\ playing_tracker' = FALSE
    /\ pc' = "pause_send"
    /\ UNCHANGED <<ret, crash>>
    /\ UNCHANGED <<unit_vars, now, duration, position, playing_state, task_pc, task_r,
                   task_position, task_now, task_ss, cancel, player_events, inputs, cur,
                   room_vars>>

\* Player::pause up to the release of the state lock
pause_lock ==
    /\ pc = "pause"
    /\ IF ~playing_tracker
       THEN /\ Return
            /\ UNCHANGED <<playing_tracker, crash>>
       ELSE /\ playing_tracker' = FALSE
            /\ pc' = "pause_send"
            /\ UNCHANGED <<ret, crash>>
    /\ UNCHANGED <<unit_vars, now, duration, position, playing_state, task_pc, task_r,
                   task_position, task_now, task_ss, cancel, player_events, inputs, cur,
                   room_vars>>

\* tracker.tx.send(()).unwrap()
pause_send ==
    /\ pc = "pause_send"
    /\ IF cancel = "closed"
       THEN /\ Panic("pause_send")
            /\ DropRoom
            /\ UNCHANGED cancel
       ELSE /\ cancel' = "sent"
            /\ pc' = "pause_join"
            /\ UNCHANGED <<ret, crash, room_vars>>
    /\ UNCHANGED <<unit_vars, now, duration, position, playing_state, playing_tracker,
                   task_pc, task_r, task_position, task_now, task_ss, player_events,
                   inputs, cur>>

\* tracker.task.await.unwrap(); self.pipe.lock().await.set_running(false)
pause_join ==
    /\ pc = "pause_join"
    /\ task_pc = "done"
    /\ set_running(FALSE)
    /\ Return
    /\ UNCHANGED <<unit_vars, now, player_vars, cur, crash, room_vars>>

\* Player::seek: is_playing, then either branch's first statement
seek_begin ==
    /\ pc = "seek"
    /\ IF is_playing
       THEN /\ pc' = "pause"
            /\ ret' = <<"seek_play">> \o ret
       ELSE /\ pc' = "seek_set"
            /\ UNCHANGED ret
    /\ UNCHANGED <<unit_vars, now, player_vars, inputs, cur, crash, room_vars>>

\* pos.clamp(Duration::ZERO, self.duration)
clamp(t, lo, hi) == IF t < lo THEN lo ELSE IF t > hi THEN hi ELSE t

\* seek on a player that was not playing
seek_set ==
    /\ pc = "seek_set"
    /\ position' = clamp(cur.pos, 0, duration)
    /\ Return
    /\ UNCHANGED <<unit_vars, now, duration, playing_state, playing_tracker, task_pc, task_r,
                   task_position, task_now, task_ss, cancel, player_events, inputs, cur,
                   crash, room_vars>>

\* seek on a player that was playing, after its pause(): set position, play()
seek_play ==
    /\ pc = "seek_play"
    /\ position' = clamp(cur.pos, 0, duration)
    /\ play(position')
    /\ Return
    /\ UNCHANGED <<unit_vars, now, duration, player_events, inputs, cur, crash, room_vars>>

\* ---------------------------------------------------------- decoder task
\* the task from its spawn to its select!: lock the pipe, set_running(true),
\* send Playing
TaskStart ==
    /\ task_pc = "start"
    /\ task_pc' = "select"
    /\ set_running(TRUE)
    /\ Emit(Playing(now, task_position))
    /\ UNCHANGED <<unit_vars, now, duration, position, playing_state, playing_tracker,
                   task_r, task_position, task_now, task_ss, cancel, pc, ret, cur, crash,
                   player, room_events, requests, sent, replies, chan_open,
                   tracker>>

\* what the oneshot channel is once the select! has dropped rx
DropRx(c) == "closed"

\* ffpipe returns Ok: ffmpeg exited and its stdout reached EOF
TaskEof ==
    /\ task_pc = "select"
    /\ task_pc' = "finish"
    /\ task_r' = "eof"
    /\ cancel' = DropRx(cancel)
    /\ UNCHANGED <<unit_vars, now, duration, position, playing_state, playing_tracker,
                   task_position, task_now, task_ss, player_events, inputs, pc, ret, cur,
                   crash, room_vars>>

\* ffpipe returns Err at ffmpeg.spawn()?: the decoder subprocess could not
\* be spawned
TaskSpawnErr ==
    /\ task_pc = "select"
    /\ task_pc' = "finish"
    /\ task_r' = "spawn_err"
    /\ cancel' = DropRx(cancel)
    /\ UNCHANGED <<unit_vars, now, duration, position, playing_state, playing_tracker,
                   task_position, task_now, task_ss, player_events, inputs, pc, ret, cur,
                   crash, room_vars>>

\* ffpipe returns Err after the spawn: waiting for ffmpeg, reading its
\* stdout or the sink failed
TaskErr ==
    /\ task_pc = "select"
    /\ task_pc' = "finish"
    /\ task_r' = "err"
    /\ cancel' = DropRx(cancel)
    /\ UNCHANGED <<unit_vars, now, duration, position, playing_state, playing_tracker,
                   task_position, task_now, task_ss, player_events, inputs, pc, ret, cur,
                   crash, room_vars>>

\* rx completes: pause() sent on tx, or tx was dropped
TaskCancel ==
    /\ task_pc = "select"
    /\ cancel \in {"sent", "dropped"}
    /\ task_pc' = "finish"
    /\ task_r' = "cancel"
    /\ cancel' = DropRx(cancel)
    /\ UNCHANGED <<unit_vars, now, duration, position, playing_state, playing_tracker,
                   task_position, task_now, task_ss, player_events, inputs, pc, ret, cur,
                   crash, room_vars>>

\* the event the task sends for the value r of its select!
PausedEvent(r, pos) ==
    IF r \in {"err", "spawn_err"}
    THEN Paused(task_now, pos, FALSE, "err")
    ELSE Paused(now, pos, r = "eof", "ok")

\* the task forgetting to add the elapsed time
Elapsed_not_added(pos, since) == pos

\* state.position += Instant::now().duration_since(playing_since)
Elapsed(pos, since) == pos + (now - since)

\* the task after its select!: under the state lock take playing_state, add
\* the elapsed time, take playing_tracker, send Paused; then the task ends
\* and drops its sender
TaskFinish ==
    /\ task_pc = "finish"
    /\ playing_state # None
    /\ task_pc' = "done"
    /\ position' = Elapsed(position, playing_state[1].playing_since)
    /\ playing_state' = None
    /\ playing_tracker' = FALSE
    /\ Emit(PausedEvent(task_r, position'))
    /\ UNCHANGED <<unit_vars, now, duration, task_r, task_position, task_now, task_ss, cancel,
                   inputs, pc, ret, cur, crash, player, room_events, requests,
                   sent, replies, chan_open, tracker>>

\* the wall clock advances
Tick ==
    /\ now < MaxTime
    /\ now' = now + 1
    /\ UNCHANGED <<unit_vars, player_vars, inputs, pc, ret, cur, crash, room_vars>>

\* ------------------------------------------------------- PlaylistTracker
\* a Track with the kinds of its providers, in order
Track(id, providers) == [id |-> id, providers |-> providers]
\* Content::Track, Content::Playlist
ContentTrack(t) == [kind |-> "Track", track |-> t]
ContentPlaylist(pl) == [kind |-> "Playlist", playlist |-> pl]
\* Playlist::new
PlaylistNew == [entries |-> <<>>]

\* object::Playlist::nesting_mode
nesting_mode(pl) == "Flatten"

RECURSIVE is_empty_(_)
\* PlaylistTracker::is_empty_
is_empty_(pl) ==
    \A i \in 1..Len(pl.entries) :
        /\ pl.entries[i].kind = "Playlist"
        /\ is_empty_(pl.entries[i].playlist)

RECURSIVE collect_from(_, _, _)
\* PlaylistTracker::collect_choices, the loop from entry i (1-based) on
collect_from(pl_path, pl, i) ==
    IF i > Len(pl.entries) THEN <<>>
    ELSE LET e == pl.entries[i]
             new_path == Append(pl_path, i - 1)
             here == IF e.kind = "Track" THEN <<new_path>>
                     ELSE IF nesting_mode(pl) = "Flatten"
                          THEN collect_from(new_path, e.playlist, 1)
                          ELSE IF ~is_empty_(pl) THEN <<new_path>> ELSE <<>>
         IN here \o collect_from(pl_path, pl, i + 1)

\* PlaylistTracker::collect_choices
collect_choices(pl_path, pl) == collect_from(pl_path, pl, 1)

RECURSIVE get_entry(_, _)
\* Playlist::get_entry
get_entry(pl, path) ==
    IF path = <<>> THEN None
    ELSE LET idx == path[1]
         IN IF idx + 1 > Len(pl.entries) THEN None
            ELSE LET el == pl.entries[idx + 1]
                 IN IF Len(path) = 1 THEN Some(el)
                    ELSE IF el.kind = "Track" THEN None
                         ELSE get_entry(el.playlist, Tail(path))

\* Playlist::get_track
get_track(pl, path) ==
    LET e == get_entry(pl, path)
    IN IF e # None /\ e[1].kind = "Track" THEN Some(e[1].track) ELSE None

\* Playlist::get_playlist
get_playlist(pl, path) ==
    IF path = <<>> THEN Some(pl)
    ELSE LET e == get_entry(pl, path)
         IN IF e # None /\ e[1].kind = "Playlist" THEN Some(e[1].playlist) ELSE None

\* an add_content that ignores the path and pushes onto the playlist itself
add_content_root(pl, content, path) ==
    [ok |-> TRUE, playlist |-> [pl EXCEPT !.entries = Append(@, content)], err |-> None]

RECURSIVE add_content(_, _, _)
\* Playlist::add_content: Ok(()) with the content pushed, or Err(content)
add_content(pl, content, path) ==
    IF path = <<>>
    THEN [ok |-> TRUE, playlist |-> [pl EXCEPT !.entries = Append(@, content)],
          err |-> None]
    ELSE LET idx == path[1]
         IN IF idx + 1 > Len(pl.entries)
            THEN [ok |-> FALSE, playlist |-> pl, err |-> Some(content)]
            ELSE LET el == pl.entries[idx + 1]
                 IN IF el.kind = "Track"
                    THEN [ok |-> FALSE, playlist |-> pl, err |-> Some(content)]
                    ELSE LET r == add_content(el.playlist, content, Tail(path))
                         IN [ok |-> r.ok,
                             playlist |-> [pl EXCEPT !.entries[idx + 1] =
                                               ContentPlaylist(r.playlist)],
                             err |-> r.err]

\* PlaylistTracker::new
PlaylistTrackerNew(pl) ==
    [playlist |-> pl, trackers |-> <<>>, iteration |-> 0, random |-> TRUE]

\* a position() that reports the first slot for whatever it finds
Position_zero(s, x) ==
    IF \E i \in 1..Len(s) : s[i] = x THEN Some(0) ELSE None

\* slice.iter().position(|v| v == x), 0-based
Position(s, x) ==
    IF \E i \in 1..Len(s) : s[i] = x
    THEN Some((CHOOSE i \in 1..Len(s) : s[i] = x /\ \A j \in 1..(i - 1) : s[j] # x) - 1)
    ELSE None

RECURSIVE FilterMapPosition(_, _)
\* last_played.iter().filter_map(|(_, el)| available.iter().position(..))
FilterMapPosition(last_played, available) ==
    IF last_played = <<>> THEN <<>>
    ELSE Position(available, Head(last_played)[2])
         \o FilterMapPosition(Tail(last_played), available)

\* the values of `pick` select_next_random can draw, by what the code
\* computes from them: below `unweighted` with floor(pick) = idx, or at or
\* above it with floor(-log2(1 - pick_rel)) = idx; the last is reached at
\* pick = max alone, the inclusive end of the range
Picks(len, last) ==
    {[weighted |-> FALSE, idx |-> i] : i \in 0..(len - Len(last) - 1)}
    \cup {[weighted |-> TRUE, idx |-> j] : j \in 0..Len(last)}

\* (0..len).filter(|el| !last.contains(el)), as a sequence
RECURSIVE NotIn(_, _, _)
NotIn(from, len, last) ==
    IF from >= len THEN <<>>
    ELSE (IF \E i \in 1..Len(last) : last[i] = from THEN <<>> ELSE <<from>>)
         \o NotIn(from + 1, len, last)

\* select_next_random: Some(index), or None where the code indexes out of
\* bounds and panics
select_next_random(len, last, pick) ==
    IF ~pick.weighted
    THEN Some(NotIn(0, len, last)[pick.idx + 1])
    ELSE IF pick.idx < Len(last) THEN Some(last[pick.idx + 1]) ELSE None

\* the root history of a tracker
LastPlayed(t) == IF <<>> \in DOMAIN t.trackers THEN t.trackers[<<>>] ELSE <<>>

\* an insert_last_played that pushes the entry without removing the one
\* already there
insert_last_played_push(t, context_tn, entry) ==
    LET vec == IF context_tn \in DOMAIN t.trackers THEN t.trackers[context_tn] ELSE <<>>
    IN [t EXCEPT !.trackers = [c \in DOMAIN t.trackers \cup {context_tn} |->
                                   IF c = context_tn
                                   THEN Append(vec, <<t.iteration, entry>>)
                                   ELSE t.trackers[c]]]

\* PlaylistTracker::insert_last_played
insert_last_played(t, context_tn, entry) ==
    LET vec == IF context_tn \in DOMAIN t.trackers THEN t.trackers[context_tn] ELSE <<>>
        found == \E i \in 1..Len(vec) : vec[i][2] = entry
        idx == CHOOSE i \in 1..Len(vec) : vec[i][2] = entry
        removed == [i \in 1..(Len(vec) - 1) |-> IF i < idx THEN vec[i] ELSE vec[i + 1]]
        new == IF found THEN Append(removed, <<t.iteration, entry>>)
               ELSE Append(vec, <<t.iteration, entry>>)
    IN [t EXCEPT !.trackers = [c \in DOMAIN t.trackers \cup {context_tn} |->
                                   IF c = context_tn THEN new ELSE t.trackers[c]]]

\* the indices of the recently played paths in `available`
Indices(t) == FilterMapPosition(LastPlayed(t), collect_choices(<<>>, t.playlist))

\* the draws next() may make in tracker t
NextPicks(t) ==
    LET available == collect_choices(<<>>, t.playlist)
    IN IF available = <<>> \/ ~t.random
       THEN {[weighted |-> FALSE, idx |-> 0]}
       ELSE Picks(Len(available), Indices(t))

\* PlaylistTracker::next with the given draw:
\* result is Track, End, NoTracks or Panic
next(t, pick) ==
    LET available == collect_choices(<<>>, t.playlist)
        last_played == LastPlayed(t)
        rnd == select_next_random(Len(available), Indices(t), pick)
        l == IF last_played # <<>> /\ Last(last_played)[1] = t.iteration
             THEN Position(available, Last(last_played)[2])
             ELSE None
        \* next_idx: the index into `available`, -1 for None
        next_idx == IF t.random THEN rnd[1]
                    ELSE IF l = None THEN 0
                    ELSE IF l[1] + 1 < Len(available) THEN l[1] + 1
                    ELSE -1
    IN IF available = <<>>
       THEN [result |-> "NoTracks", track |-> None, tracker |-> t]
       ELSE IF t.random /\ rnd = None
       THEN [result |-> "Panic", track |-> None, tracker |-> t]
       ELSE IF next_idx = -1
       THEN [result |-> "End", track |-> None, tracker |-> t]
       ELSE LET path == available[next_idx + 1]
                tr == get_track(t.playlist, path)
            IN [result |-> IF tr = None THEN "End" ELSE "Track",
                track |-> tr,
                tracker |-> insert_last_played(t, <<>>, path)]

\* PlaylistTracker::add_track, Playlist::add_track: Ok(()) or Err(track)
add_track(t, track, parent) ==
    LET r == add_content(t.playlist, ContentTrack(track), parent)
    IN [ok |-> r.ok, tracker |-> [t EXCEPT !.playlist = r.playlist],
        err |-> IF r.err = None THEN None ELSE Some(r.err[1].track)]

\* PlaylistTracker::add_playlist, Playlist::add_playlist: Ok(()) or Err(playlist)
add_playlist(t, pl, parent) ==
    LET r == add_content(t.playlist, ContentPlaylist(pl), parent)
    IN [ok |-> r.ok, tracker |-> [t EXCEPT !.playlist = r.playlist],
        err |-> IF r.err = None THEN None ELSE Some(r.err[1].playlist)]

\* ---------------------------------------------- dasp ring_buffer::Bounded
\* the frame [0.0; 2]; a frame stands for both of its channels
Equilibrium == 0

\* Bounded::from(vec![[0.0; 2]; n]): an empty ring over n slots
BoundedFrom(n) ==
    [start |-> 0, len |-> 0, data |-> [i \in 0..(n - 1) |-> Equilibrium]]

\* Bounded::max_len, Bounded::is_full
max_len(b) == Cardinality(DOMAIN b.data)
is_full(b) == b.len = max_len(b)

\* the slot after slot i, wrapping
NextSlot(b, i) == IF i + 1 >= max_len(b) THEN 0 ELSE i + 1

\* Bounded::push: on a full ring the oldest frame is replaced and returned
push(b, e) ==
    IF b.len = max_len(b)
    THEN [buffer |-> [b EXCEPT !.data[b.start] = e, !.start = NextSlot(b, b.start)],
          ret |-> Some(b.data[b.start])]
    ELSE [buffer |-> [b EXCEPT !.data[(b.start + b.len) % max_len(b)] = e,
                               !.len = b.len + 1],
          ret |-> None]

\* Bounded::pop taking the newest frame instead of the oldest
pop_newest(b) ==
    IF b.len = 0
    THEN [buffer |-> b, ret |-> None]
    ELSE [buffer |-> [b EXCEPT !.len = b.len - 1],
          ret |-> Some(b.data[(b.start + b.len - 1) % max_len(b)])]

\* Bounded::pop
pop(b) ==
    IF b.len = 0
    THEN [buffer |-> b, ret |-> None]
    ELSE [buffer |-> [b EXCEPT !.start = NextSlot(b, b.start), !.len = b.len - 1],
          ret |-> Some(b.data[b.start])]

\* Bounded::iter: the frames in the ring, oldest first
Contents(b) == [i \in 1..b.len |-> b.data[(b.start + i - 1) % max_len(b)]]

RECURSIVE push_all(_, _)
\* for el in frames { buffer.push(*el) }
push_all(b, frames) ==
    IF frames = <<>> THEN b ELSE push_all(push(b, Head(frames)).buffer, Tail(frames))

RECURSIVE pop_block(_, _)
\* for i in 0..n { buffer.pop() }: the block written, Equilibrium where the
\* ring was empty, the frames popped, and the count of missing frames
pop_block(b, n) ==
    IF n = 0
    THEN [buffer |-> b, block |-> <<>>, frames |-> <<>>, underflow |-> 0]
    ELSE LET r == pop(b)
             rest == pop_block(r.buffer, n - 1)
         IN IF r.ret = None
            THEN [rest EXCEPT !.block = <<Equilibrium>> \o @, !.underflow = @ + 1]
            ELSE [rest EXCEPT !.block = r.ret \o @, !.frames = r.ret \o @]

\* ------------------------------------------------------------- CoreData
\* CoreData::new: the graph holds the NoOp node `bottom` alone
bottom == 0
GraphNew == [nodes |-> <<[kind |-> "NoOp"]>>, edges |-> {}]

\* NodeIndex values of graph g, and the node at an index
NodeIndices(g) == 0..(Len(g.nodes) - 1)
NodeAt(g, n) == g.nodes[n + 1]

\* Graph::add_node: the node gets the next index
add_node(g, node) == [g EXCEPT !.nodes = Append(@, node)]
\* Graph::add_edge
add_edge(g, a, b) == [g EXCEPT !.edges = @ \cup {<<a, b>>}]
\* Graph::add_edge panics when one of the two is not the index of a node
add_edge_panics(g, a, b) == a >= Len(g.nodes) \/ b >= Len(g.nodes)

\* CoreData::add_input_to connecting the Input to the first Output it finds
\* instead of the given one
add_input_to_any(g, via, target) ==
    LET node == Len(g.nodes)
        g1 == add_node(g, [kind |-> "Input", via |-> via, target |-> target])
        outs == {n \in NodeIndices(g) : NodeAt(g, n).kind = "Output"}
    IN IF outs # {}
       THEN add_edge(g1, node, CHOOSE n \in outs : \A m \in outs : n <= m)
       ELSE g1

\* CoreData::add_input_to; via and target record the call that made the node.
\* The node is added first, so that its own index is one add_edge accepts;
\* when add_edge panics the node stays in the graph without an edge
add_input_to(g, via, target) ==
    LET node == Len(g.nodes)
        g1 == add_node(g, [kind |-> "Input", via |-> via, target |-> target])
    IN IF target # None /\ ~add_edge_panics(g1, node, target[1])
       THEN add_edge(g1, node, target[1])
       ELSE g1

\* CoreData::add_output with its edge to bottom turned around
add_output_reversed(g) ==
    LET node == Len(g.nodes)
    IN add_edge(add_node(g, [kind |-> "Output"]), bottom, node)

\* CoreData::add_output, the graph part
add_output(g) ==
    LET node == Len(g.nodes)
    IN add_edge(add_node(g, [kind |-> "Output"]), node, bottom)

\* the edges leaving node n
Outgoing(g, n) == {e \in g.edges : e[1] = n}

\* the graph and the ring when no Core is involved
NoGraph ==
    /\ graph = GraphNew
    /\ default_output = None
    /\ core_poisoned = FALSE
NoRing ==
    /\ buffer = BoundedFrom(1)
    /\ write_waker = None
    /\ producer = "none"
    /\ offered = 0
    /\ output = [block |-> <<>>, underflow |-> 0]
    /\ delivered = <<>>
    /\ returned = <<>>

\* the Core::run task between two ticks, at interval.tick().await: pc is its
\* position, k the Input it is at, ran whether it found the Input's flag set,
\* ins the Buffers of the Inputs it has processed in this tick
CoreIdle == [pc |-> "interval", k |-> 0, ran |-> FALSE, ins |-> <<>>]

\* no Output ring is looked at
NoOutput ==
    /\ out_buffer = BoundedFrom(1)
    /\ ticked = <<>>
    /\ pulled = <<>>
    /\ sources = <<>>
    /\ core_run = CoreIdle

\* no byte pipe is in use
NoPipe ==
    /\ shared = [buffer |-> <<>>, closed |-> FALSE, write_notify |-> None,
                 read_notify |-> None]
    /\ writer = "none"
    /\ reader = "none"
    /\ written = 0

\* mpsc::channel(n) with nothing sent: the packets queued, whether the
\* receiver is alive, the number of packets accepted and the last of them
VoiceChannel == [queue |-> <<>>, open |-> TRUE, count |-> 0, last |-> None]

\* the encoder task at interval.tick().await before its first block: pc is
\* its position, idx and is_empty are the loop's locals, before is the block
\* of the iteration before the one it is in
EncoderIdle == [pc |-> "interval", idx |-> 0, is_empty |-> TRUE, before |-> <<>>]

\* no encoder task runs
NoEncoder ==
    /\ last_was_empty = TRUE
    /\ pcm_buf = <<>>
    /\ taken = <<>>
    /\ voice_tx = VoiceChannel
    /\ enc_run = EncoderIdle

\* ------------------------------------------------- direct use of a Player
\* the lengths ffprobe may report for the file
Durations == {1, 2}
\* the positions a caller may seek to
SeekTargets == {0, 1, 3}

\* state of the room's variables when no Room is involved
NoRoom ==
    /\ player = None
    /\ data_rx = None
    /\ loc_rx = None
    /\ room_events = <<>>
    /\ requests = <<>>
    /\ sent = 0
    /\ replies = <<>>
    /\ chan_open = FALSE
    /\ tracker = <<>>

\* Player::new(path, pipe) on a fresh Input (running = false)
InitPlayer ==
    /\ now = 0
    /\ duration \in Durations
    /\ position = 0
    /\ playing_state = None
    /\ playing_tracker = FALSE
    /\ task_pc = "none"
    /\ task_r = "none"
    /\ task_position = 0
    /\ task_now = 0
    /\ task_ss = 0
    /\ cancel = "none"
    /\ player_events = <<>>
    /\ inputs = <<FALSE>>
    /\ pc = "idle"
    /\ ret = <<>>
    /\ cur = [op |-> "new", pos |-> 0]
    /\ crash = "none"
    /\ NoRoom
    /\ NoGraph
    /\ NoRing
    /\ NoOutput
    /\ NoEncoder
    /\ NoPipe

\* the caller calls player.play()
CallPlay ==
    /\ pc = "idle"
    /\ Len(player_events) < MaxEvents
    /\ play(position)
    /\ cur' = [op |-> IF playing_state = None THEN "play" ELSE "play_noop", pos |-> 0]
    /\ UNCHANGED <<unit_vars, now, duration, position, player_events, inputs, pc, ret, crash,
                   room_vars>>

\* the caller calls player.pause()
CallPause ==
    /\ pc = "idle"
    /\ pc' = "pause"
    /\ ret' = <<"idle">>
    /\ cur' = [op |-> IF playing_tracker THEN "pause"
                      ELSE IF cur.op \in {"pause", "pause_again"} THEN "pause_again"
                      ELSE "pause_noop",
               pos |-> 0]
    /\ UNCHANGED <<unit_vars, now, player_vars, inputs, crash, room_vars>>

\* the caller calls player.seek(t)
CallSeek ==
    /\ pc = "idle"
    /\ Len(player_events) < MaxEvents
    /\ \E t \in SeekTargets :
         cur' = [op |-> IF playing_tracker THEN "seek_playing" ELSE "seek_idle", pos |-> t]
    /\ pc' = "seek"
    /\ ret' = <<"idle">>
    /\ UNCHANGED <<unit_vars, now, player_vars, inputs, crash, room_vars>>

NextPlayer ==
    \/ CallPlay
    \/ CallPause
    \/ CallSeek
    \/ pause_lock
    \/ pause_send
    \/ pause_join
    \/ seek_begin
    \/ seek_set
    \/ seek_play
    \/ TaskStart
    \/ TaskEof
    \/ TaskSpawnErr
    \/ TaskErr
    \/ TaskCancel
    \/ TaskFinish
    \/ Tick

SpecPlayer == InitPlayer /\ [][NextPlayer]_vars

\* ------------------------------------------------------- Room controller
\* the tracks of the model: one with a local file, one behind a URL
T1 == Track(1, <<"Local">>)
T2 == Track(2, <<"Url">>)
\* the playlists callers pass to set_playlist
PlaylistChoices == {PlaylistNew, [entries |-> <<ContentTrack(T1), ContentTrack(T2)>>]}
\* the playlist passed to Room::add_playlist and to the AddPlaylist message
PlaylistArg == [entries |-> <<ContentTrack(T1)>>]
\* the duration ffprobe reports for a track's file
FileDuration(tr) == tr.id

\* Event::TrackChanged, Event::TrackCleared, Event::PlayerEvent; node is the
\* Input node of the Player the event belongs to
TrackChanged(tr, len, node) ==
    [type |-> "TrackChanged", track |-> tr.id, length |-> len, node |-> node]
TrackCleared == [type |-> "TrackCleared"]
PlayerEvent(ev, node) == [type |-> "PlayerEvent", ev |-> ev, node |-> node]

\* event_tx.send(e)
RoomEmit(e) == room_events' = Append(room_events, e)

\* the controller's locals while it handles nothing
CurNone == [op |-> "none", id |-> 0, arg |-> <<>>, ev |-> <<>>, track |-> <<>>,
            playing |-> FALSE, had_player |-> FALSE, skipped |-> FALSE]
\* the controller's locals for message msg
CurMsg(msg) == [CurNone EXCEPT !.op = msg.op, !.id = msg.id, !.arg = msg.arg]

\* Room::new
Init ==
    /\ now = 0
    /\ duration = 0
    /\ position = 0
    /\ playing_state = None
    /\ playing_tracker = FALSE
    /\ task_pc = "none"
    /\ task_r = "none"
    /\ task_position = 0
    /\ task_now = 0
    /\ task_ss = 0
    /\ cancel = "none"
    /\ player_events = <<>>
    /\ inputs = <<>>
    /\ pc = "select"
    /\ ret = <<>>
    /\ cur = CurNone
    /\ crash = "none"
    /\ player = None
    /\ data_rx = None
    /\ loc_rx = None
    /\ room_events = <<>>
    /\ requests = <<>>
    /\ sent = 0
    /\ replies = <<>>
    /\ chan_open = TRUE
    /\ tracker = PlaylistTrackerNew(PlaylistNew)
    /\ NoGraph
    /\ NoRing
    /\ NoOutput
    /\ NoEncoder
    /\ NoPipe

\* the message kinds of proxy Room1 with their arguments
Messages ==
    {[op |-> o, arg |-> <<>>] : o \in {"Play", "Pause", "Next", "AddToQueue", "Playlist"}}
    \cup {[op |-> "SetPlaylist", arg |-> Some(pl)] : pl \in PlaylistChoices}
    \cup {[op |-> "AddPlaylist", arg |-> Some(PlaylistArg)]}

\* a caller's proxy method up to the send on the mpsc channel
SendRequest ==
    /\ chan_open
    /\ pc \notin {"panicked", "exited"}
    /\ sent < MaxRequests
    /\ Len(requests) < ChannelCapacity
    /\ \E m \in Messages :
         requests' = Append(requests, [op |-> m.op, id |-> sent + 1, arg |-> m.arg])
    /\ sent' = sent + 1
    /\ replies' = Append(replies, "pending")
    /\ UNCHANGED <<unit_vars, now, player_vars, inputs, pc, ret, cur, crash, player, data_rx,
                   loc_rx, room_events, chan_open, tracker>>

\* the Room, and with it the last proxy sender, is dropped
CloseChannel ==
    /\ chan_open
    /\ chan_open' = FALSE
    /\ UNCHANGED <<unit_vars, now, player_vars, inputs, pc, ret, cur, crash, player, data_rx,
                   loc_rx, room_events, requests, sent, replies, tracker>>

\* whether the std Mutex around Shared is poisoned: a holder of its guard
\* panicked, which only get_next() can do, inside select_next_random
Poisoned == crash = "rng"

\* Room::add_playlist: the playlist goes into the shared tracker's root;
\* on a poisoned Mutex lock().unwrap() panics in the caller and the tracker
\* stays as it is
RoomAddPlaylist ==
    /\ chan_open
    /\ ~Poisoned
    /\ Len(tracker.playlist.entries) < MaxEntries
    /\ tracker' = add_playlist(tracker, PlaylistArg, <<>>).tracker
    /\ UNCHANGED <<unit_vars, now, player_vars, inputs, pc, ret, cur, crash, player, data_rx,
                   loc_rx, room_events, requests, sent, replies, chan_open>>

\* callback.send(())
Reply(id) == replies' = [replies EXCEPT ![id] = "ok"]

\* the end of one pass of run_room's loop and the start of the next:
\* data.player_receiver = data.player_receiver.or(player_receiver), then
\* player_receiver = data.player_receiver.take()
LoopEnd ==
    /\ loc_rx' = IF data_rx # None THEN data_rx ELSE loc_rx
    /\ data_rx' = None

\* rx.next() yields a message of kind op to the controller at its select!
Yields(op) ==
    /\ pc = "select"
    /\ requests # <<>>
    /\ Head(requests).op = op

\* the request branch of the select! is taken with a message of kind op
Recv(op) ==
    /\ Yields(op)
    /\ requests' = Tail(requests)

\* the controller panics in its own code: Panic, and everything it owns drops
RoomPanic(why) ==
    /\ Panic(why)
    /\ cancel' = DropTx(cancel)
    /\ player' = None
    /\ data_rx' = None
    /\ loc_rx' = None
    /\ requests' = <<>>
    /\ replies' = [i \in DOMAIN replies |->
                      IF replies[i] = "pending" THEN "canceled" ELSE replies[i]]

\* Room1Message::Play with no Player: skip()
HandlePlaySkip ==
    /\ Recv("Play")
    /\ player = None
    /\ cur' = [CurMsg(Head(requests)) EXCEPT !.skipped = TRUE]
    /\ pc' = "skip"
    /\ ret' = <<"reply">>
    /\ UNCHANGED <<unit_vars, now, player_vars, inputs, crash, player, data_rx, loc_rx,
                   room_events, sent, replies, chan_open, tracker>>

\* Room1Message::Play with a Player, up to pl.play().await
HandlePlay ==
    /\ Recv("Play")
    /\ player # None
    /\ cur' = CurMsg(Head(requests))
    /\ pc' = "play"
    /\ ret' = <<"reply">>
    /\ UNCHANGED <<unit_vars, now, player_vars, inputs, crash, player, data_rx, loc_rx,
                   room_events, sent, replies, chan_open, tracker>>

\* pl.play() from the moment it holds the state lock to its return, which
\* releases the lock; the decoder task it spawned runs on from here
play_lock ==
    /\ pc = "play"
    /\ play(position)
    /\ Return
    /\ UNCHANGED <<unit_vars, now, duration, position, player_events, inputs, cur, crash,
                   room_vars>>

\* Room1Message::Pause
HandlePause ==
    /\ Recv("Pause")
    /\ cur' = CurMsg(Head(requests))
    /\ IF player # None
       THEN /\ pc' = "pause"
            /\ ret' = <<"reply">>
       ELSE /\ pc' = "reply"
            /\ UNCHANGED ret
    /\ UNCHANGED <<unit_vars, now, player_vars, inputs, crash, player, data_rx, loc_rx,
                   room_events, sent, replies, chan_open, tracker>>

\* Room1Message::Next
HandleNext ==
    /\ Recv("Next")
    /\ cur' = [CurMsg(Head(requests)) EXCEPT !.skipped = TRUE]
    /\ pc' = "skip"
    /\ ret' = <<"reply">>
    /\ UNCHANGED <<unit_vars, now, player_vars, inputs, crash, player, data_rx, loc_rx,
                   room_events, sent, replies, chan_open, tracker>>

\* Room1Message::AddToQueue: todo!()
HandleAddToQueue ==
    /\ Yields("AddToQueue")
    /\ RoomPanic("todo")
    /\ cur' = CurMsg(Head(requests))
    /\ UNCHANGED <<unit_vars, now, duration, position, playing_state, playing_tracker,
                   task_pc, task_r, task_position, task_now, task_ss, player_events,
                   inputs, room_events, sent, chan_open, tracker>>

\* Room1Message::SetPlaylist
HandleSetPlaylist ==
    /\ Recv("SetPlaylist")
    /\ tracker' = PlaylistTrackerNew(Head(requests).arg[1])
    /\ cur' = [CurMsg(Head(requests)) EXCEPT !.skipped = TRUE]
    /\ pc' = "skip"
    /\ ret' = <<"reply">>
    /\ UNCHANGED <<unit_vars, now, player_vars, inputs, crash, player, data_rx, loc_rx,
                   room_events, sent, replies, chan_open>>

\* Room1Message::Playlist: todo!()
HandlePlaylist ==
    /\ Yields("Playlist")
    /\ RoomPanic("todo")
    /\ cur' = CurMsg(Head(requests))
    /\ UNCHANGED <<unit_vars, now, duration, position, playing_state, playing_tracker,
                   task_pc, task_r, task_position, task_now, task_ss, player_events,
                   inputs, room_events, sent, chan_open, tracker>>

\* Room1Message::AddPlaylist: callback.send(())
HandleAddPlaylist ==
    /\ Recv("AddPlaylist")
    /\ Reply(Head(requests).id)
    /\ LoopEnd
    /\ UNCHANGED <<unit_vars, now, player_vars, inputs, pc, ret, cur, crash, player,
                   room_events, sent, chan_open, tracker>>

\* callback.send(()) after a skip() or a pause(), and the end of the pass
reply ==
    /\ pc = "reply"
    /\ Reply(cur.id)
    /\ LoopEnd
    /\ cur' = CurNone
    /\ pc' = "select"
    /\ UNCHANGED <<unit_vars, now, player_vars, inputs, ret, crash, player, room_events,
                   requests, sent, chan_open, tracker>>

\* rx.next() yields None: break, and run_room returns
RoomExit ==
    /\ pc = "select"
    /\ requests = <<>>
    /\ ~chan_open
    /\ pc' = "exited"
    /\ cancel' = DropTx(cancel)
    /\ player' = None
    /\ data_rx' = None
    /\ loc_rx' = None
    /\ UNCHANGED <<unit_vars, now, duration, position, playing_state, playing_tracker,
                   task_pc, task_r, task_position, task_now, task_ss, player_events,
                   inputs, ret, cur, crash, room_events, requests, sent, replies,
                   chan_open, tracker>>

\* a skip() that looks at the Player without taking it out of the room
skip_begin_keeps_player ==
    /\ pc = "skip"
    /\ IF player # None
       THEN /\ cur' = [cur EXCEPT !.playing = is_playing, !.had_player = TRUE]
            /\ pc' = "pause"
            /\ ret' = <<"skip_next">> \o ret
       ELSE /\ cur' = [cur EXCEPT !.playing = FALSE]
            /\ pc' = "skip_next"
            /\ UNCHANGED ret
    /\ UNCHANGED <<unit_vars, now, player_vars, inputs, crash, player, data_rx, loc_rx,
                   room_events, requests, sent, replies, chan_open, tracker>>

\* skip() up to player.pause(): take the Player, ask is_playing()
skip_begin ==
    /\ pc = "skip"
    /\ IF player # None
       THEN /\ player' = None
            /\ cur' = [cur EXCEPT !.playing = is_playing, !.had_player = TRUE]
            /\ pc' = "pause"
            /\ ret' = <<"skip_next">> \o ret
       ELSE /\ cur' = [cur EXCEPT !.playing = FALSE]
            /\ pc' = "skip_next"
            /\ UNCHANGED <<player, ret>>
    /\ UNCHANGED <<unit_vars, now, player_vars, inputs, crash, data_rx, loc_rx, room_events,
                   requests, sent, replies, chan_open, tracker>>

\* the taken Player is dropped at the end of the `if let`: the receiver of
\* its channel sees the channel closed once the queue is drained
DropOldPlayer == IF cur.had_player THEN CloseRx(loc_rx) ELSE loc_rx

\* let tr = self.get_next(): the shared tracker is locked, advanced and
\* unlocked; the Player taken at the start of skip() has been dropped
skip_get_next ==
    /\ pc = "skip_next"
    /\ \E pick \in NextPicks(tracker) :
         LET r == next(tracker, pick)
         IN /\ r.result # "Panic"
            /\ tracker' = r.tracker
            /\ IF r.result = "Track"
               THEN /\ cur' = [cur EXCEPT !.track = r.track]
                    /\ pc' = "skip_fetch"
               ELSE /\ pc' = "skip_cleared"
                    /\ UNCHANGED cur
    /\ loc_rx' = DropOldPlayer
    /\ UNCHANGED <<unit_vars, now, player_vars, inputs, ret, crash, player, data_rx,
                   room_events, requests, sent, replies, chan_open>>

\* get_next() returned None: send TrackCleared
skip_cleared ==
    /\ pc = "skip_cleared"
    /\ RoomEmit(TrackCleared)
    /\ Return
    /\ UNCHANGED <<unit_vars, now, player_vars, inputs, cur, crash, player, data_rx, loc_rx,
                   requests, sent, replies, chan_open, tracker>>

\* get_next() panics inside select_next_random
skip_rng_panic ==
    /\ pc = "skip_next"
    /\ \E pick \in NextPicks(tracker) : next(tracker, pick).result = "Panic"
    /\ RoomPanic("rng")
    /\ UNCHANGED <<unit_vars, now, duration, position, playing_state, playing_tracker,
                   task_pc, task_r, task_position, task_now, task_ss, player_events,
                   inputs, cur, room_events, sent, chan_open, tracker>>

\* whether media_path() of a provider of this kind can fail
CanFailFetch(kind) == kind # "Local"

\* media_path() of the track get_next() returned fails: unwrap() panics
skip_fetch_fails ==
    /\ pc = "skip_fetch"
    /\ CanFailFetch(cur.track[1].providers[1])
    /\ RoomPanic("media_fetch")
    /\ UNCHANGED <<unit_vars, now, duration, position, playing_state, playing_tracker,
                   task_pc, task_r, task_position, task_now, task_ss, player_events,
                   inputs, cur, room_events, sent, chan_open, tracker>>

\* media_path() returns the file, add_input_to adds the Input, Player::new
\* fails in ffprobe: unwrap() panics
skip_probe_fails ==
    /\ pc = "skip_fetch"
    /\ inputs' = Append(inputs, FALSE)
    /\ RoomPanic("media_probe")
    /\ UNCHANGED <<unit_vars, now, duration, position, playing_state, playing_tracker,
                   task_pc, task_r, task_position, task_now, task_ss, player_events,
                   cur, room_events, sent, chan_open, tracker>>

\* media_path() returns the file: add_input_to(audio_out), Player::new,
\* event_listener()
skip_track ==
    /\ pc = "skip_fetch"
    /\ PlayerNew(FileDuration(cur.track[1]))
    /\ inputs' = Append(inputs, FALSE)
    /\ data_rx' = Some(Receiver)
    /\ pc' = "skip_play"
    /\ UNCHANGED <<unit_vars, now, ret, cur, crash, player, loc_rx, room_events, requests,
                   sent, replies, chan_open, tracker>>

\* whether skip() starts the new Player: `if playing`
StartsNew(playing) == playing

\* skip() from player.length() to its end: self.player = Some(player),
\* send TrackChanged
skip_end ==
    /\ player' = Some([track |-> cur.track[1].id, length |-> duration])
    /\ RoomEmit(TrackChanged(cur.track[1], duration, Len(inputs)))
    /\ Return

\* skip() at `if playing`: player.play() up to its return, which releases
\* the new Player's state lock, or with playing false straight to the end
skip_play ==
    /\ pc = "skip_play"
    /\ IF StartsNew(cur.playing)
       THEN /\ play(position)
            /\ pc' = "skip_emit"
            /\ UNCHANGED <<ret, player, room_events>>
       ELSE /\ skip_end
            /\ UNCHANGED <<playing_state, playing_tracker, task_pc, task_r,
                           task_position, task_now, task_ss, cancel>>
    /\ UNCHANGED <<unit_vars, now, duration, position, player_events, inputs, cur, crash,
                   data_rx, loc_rx, requests, sent, replies, chan_open, tracker>>

\* skip() after the new Player's play() returned
skip_emit ==
    /\ pc = "skip_emit"
    /\ skip_end
    /\ UNCHANGED <<unit_vars, now, player_vars, inputs, cur, crash, data_rx, loc_rx,
                   requests, sent, replies, chan_open, tracker>>

\* whether the controller skips on this PlayerEvent: Paused { stopped: true }
SkipsOn(ev) == ev.type = "Paused" /\ ev.stopped

\* the player branch of the select! yields Ok(ev) and the controller skips
RecvPlayerStopped ==
    /\ pc = "select"
    /\ loc_rx # None
    /\ loc_rx[1].queue # <<>>
    /\ SkipsOn(Head(loc_rx[1].queue))
    /\ loc_rx' = Some([loc_rx[1] EXCEPT !.queue = Tail(@)])
    /\ cur' = [CurNone EXCEPT !.op = "event", !.ev = Some(Head(loc_rx[1].queue)),
                              !.id = Len(inputs), !.skipped = TRUE]
    /\ pc' = "skip"
    /\ ret' = <<"forward">>
    /\ UNCHANGED <<unit_vars, now, player_vars, inputs, crash, player, data_rx, room_events,
                   requests, sent, replies, chan_open, tracker>>

\* the player branch yields Ok(ev) with any other event: forward it
RecvPlayerEvent ==
    /\ pc = "select"
    /\ loc_rx # None
    /\ loc_rx[1].queue # <<>>
    /\ ~SkipsOn(Head(loc_rx[1].queue))
    /\ loc_rx' = Some([loc_rx[1] EXCEPT !.queue = Tail(@)])
    /\ RoomEmit(PlayerEvent(Head(loc_rx[1].queue), Len(inputs)))
    /\ UNCHANGED <<unit_vars, now, player_vars, inputs, pc, ret, cur, crash, player, data_rx,
                   requests, sent, replies, chan_open, tracker>>

\* event_tx.send(Event::PlayerEvent(ev)) after the skip(), end of the pass
forward ==
    /\ pc = "forward"
    /\ RoomEmit(PlayerEvent(cur.ev[1], cur.id))
    /\ LoopEnd
    /\ cur' = CurNone
    /\ pc' = "select"
    /\ UNCHANGED <<unit_vars, now, player_vars, inputs, ret, crash, player, requests, sent,
                   replies, chan_open, tracker>>

\* the player branch yields Err(RecvError::Closed): skip()
RecvPlayerClosed ==
    /\ pc = "select"
    /\ loc_rx # None
    /\ loc_rx[1].queue = <<>>
    /\ ~loc_rx[1].open
    /\ Len(room_events) < MaxRoomEvents
    /\ cur' = [CurNone EXCEPT !.op = "closed", !.skipped = TRUE]
    /\ pc' = "skip"
    /\ ret' = <<"loop_end">>
    /\ UNCHANGED <<unit_vars, now, player_vars, inputs, crash, player, data_rx, loc_rx,
                   room_events, requests, sent, replies, chan_open, tracker>>

\* the end of the pass after the Closed arm
loop_end ==
    /\ pc = "loop_end"
    /\ LoopEnd
    /\ cur' = CurNone
    /\ pc' = "select"
    /\ UNCHANGED <<unit_vars, now, player_vars, inputs, ret, crash, player, room_events,
                   requests, sent, replies, chan_open, tracker>>

Next ==
    \/ SendRequest
    \/ CloseChannel
    \/ RoomAddPlaylist
    \/ HandlePlaySkip
    \/ HandlePlay
    \/ play_lock
    \/ HandlePause
    \/ HandleNext
    \/ HandleAddToQueue
    \/ HandleSetPlaylist
    \/ HandlePlaylist
    \/ HandleAddPlaylist
    \/ reply
    \/ RoomExit
    \/ skip_begin
    \/ pause_lock
    \/ pause_send
    \/ pause_join
    \/ skip_get_next
    \/ skip_cleared
    \/ skip_rng_panic
    \/ skip_fetch_fails
    \/ skip_probe_fails
    \/ skip_track
    \/ skip_play
    \/ skip_emit
    \/ RecvPlayerStopped
    \/ RecvPlayerEvent
    \/ forward
    \/ RecvPlayerClosed
    \/ loop_end
    \/ TaskStart
    \/ TaskEof
    \/ TaskSpawnErr
    \/ TaskErr
    \/ TaskCancel
    \/ TaskFinish
    \/ Tick

Spec == Init /\ [][Next]_vars

\* ------------------------------------------------ Core: building the graph
\* the variables of the Player and its caller when no Player is involved
NoPlayer ==
    /\ now = 0
    /\ duration = 0
    /\ position = 0
    /\ playing_state = None
    /\ playing_tracker = FALSE
    /\ task_pc = "none"
    /\ task_r = "none"
    /\ task_position = 0
    /\ task_now = 0
    /\ task_ss = 0
    /\ cancel = "none"
    /\ player_events = <<>>
    /\ pc = "none"
    /\ ret = <<>>
    /\ cur = [op |-> "none", pos |-> 0]
    /\ crash = "none"

\* Core::new
InitGraph ==
    /\ NoPlayer
    /\ NoRoom
    /\ NoRing
    /\ NoOutput
    /\ NoEncoder
    /\ NoPipe
    /\ graph = GraphNew
    /\ default_output = None
    /\ core_poisoned = FALSE
    /\ inputs = <<>>

\* the Output nodes of the graph
Outputs(g) == {n \in NodeIndices(g) : NodeAt(g, n).kind = "Output"}

\* the NodeIndex values a caller hands to add_input_to: NodeIndex::new takes
\* any number, so the index of a node of any kind, the index the new node is
\* about to get, and an index beyond the graph
TargetChoices == 0..(MaxNodes + 1)

\* Core::add_output; data.lock().unwrap() panics in the caller once the
\* Mutex is poisoned
CoreAddOutput ==
    /\ ~core_poisoned
    /\ Len(graph.nodes) <= MaxNodes
    /\ graph' = add_output(graph)
    /\ default_output' = IF default_output = None
                         THEN Some(Len(graph.nodes)) ELSE default_output
    /\ UNCHANGED <<program_vars, inputs, ring_vars, core_poisoned>>

\* Core::add_input
CoreAddInput ==
    /\ ~core_poisoned
    /\ Len(graph.nodes) <= MaxNodes
    /\ graph' = add_input_to(graph, "add_input", default_output)
    /\ inputs' = Append(inputs, FALSE)
    /\ UNCHANGED <<program_vars, default_output, ring_vars, core_poisoned>>

\* Core::add_input_to(output): output is None or any NodeIndex, the code
\* does not look at the node behind it. An index that is not in the graph
\* once the new node is added makes add_edge panic under the lock: the node
\* stays, the Mutex is poisoned and no AudioSource is returned
CoreAddInputTo ==
    /\ ~core_poisoned
    /\ Len(graph.nodes) <= MaxNodes
    /\ \E target \in {None} \cup {Some(n) : n \in TargetChoices} :
         /\ graph' = add_input_to(graph, "add_input_to", target)
         /\ core_poisoned' =
               (target # None /\ add_edge_panics(graph', Len(graph.nodes), target[1]))
    /\ inputs' = Append(inputs, FALSE)
    /\ UNCHANGED <<program_vars, default_output, ring_vars>>

NextGraph ==
    \/ CoreAddOutput
    \/ CoreAddInput
    \/ CoreAddInputTo

SpecGraph == InitGraph /\ [][NextGraph]_vars

\* ------------------------------------------- one Input: producer and mixer
\* a graph with one Output and one Input routed to it, the Input not running
InitRing ==
    /\ NoPlayer
    /\ NoRoom
    /\ graph = add_input_to(add_output(GraphNew), "add_input_to", Some(1))
    /\ default_output = Some(1)
    /\ core_poisoned = FALSE
    /\ inputs = <<FALSE>>
    /\ buffer = BoundedFrom(InputRingLen)
    /\ write_waker = None
    /\ producer = "idle"
    /\ offered = 0
    /\ output = [block |-> [i \in 1..BufferLen |-> Equilibrium], underflow |-> 0]
    /\ delivered = <<>>
    /\ returned = <<>>
    /\ NoOutput
    /\ NoEncoder
    /\ NoPipe

\* the frames numbered from + 1 .. from + k: what the producer pushes next
Frames(from, k) == [i \in 1..k |-> from + i]

\* AudioSource::set_running
SetRunning ==
    /\ \E b \in BOOLEAN : set_running(b)
    /\ UNCHANGED <<program_vars, graph_vars, ring_vars>>

\* AudioSource::push
AudioSourcePush ==
    /\ offered < MaxFrames
    /\ buffer' = push(buffer, offered + 1).buffer
    /\ offered' = offered + 1
    /\ UNCHANGED <<program_vars, inputs, graph_vars, write_waker, producer, output,
                   delivered>>

\* Sink::poll_ready
poll_ready ==
    /\ producer \in {"idle", "woken"}
    /\ offered < MaxFrames
    /\ IF is_full(buffer)
       THEN /\ write_waker' = Some("producer")
            /\ producer' = "pending"
       ELSE /\ producer' = "ready"
            /\ UNCHANGED write_waker
    /\ UNCHANGED <<program_vars, inputs, graph_vars, buffer, offered, output,
                   delivered>>

\* Sink::start_send, after poll_ready returned Ready
start_send ==
    /\ producer = "ready"
    /\ buffer' = push(buffer, offered + 1).buffer
    /\ offered' = offered + 1
    /\ producer' = "idle"
    /\ UNCHANGED <<program_vars, inputs, graph_vars, write_waker, output, delivered>>

\* StreamWrite::poll_write with a slice of k frames
poll_write ==
    /\ producer \in {"idle", "woken"}
    /\ \E k \in 1..MaxWrite :
         /\ offered + k <= MaxFrames
         /\ IF is_full(buffer)
            THEN /\ write_waker' = Some("producer")
                 /\ producer' = "pending"
                 /\ UNCHANGED <<buffer, offered>>
            ELSE LET remaining == max_len(buffer) - buffer.len
                     to_write == IF remaining < k THEN remaining ELSE k
                 IN /\ buffer' = push_all(buffer, Frames(offered, to_write))
                    /\ offered' = offered + to_write
                    /\ producer' = "idle"
                    /\ UNCHANGED write_waker
    /\ UNCHANGED <<program_vars, inputs, graph_vars, output, delivered>>

\* waker.wake() going nowhere
wake_lost(w, p) == p

\* write_waker.take() and waker.wake(): the task behind the waker is woken
wake(w, p) == IF w # None THEN "woken" ELSE p

\* an InputNode::process that takes the Input for stopped whatever its flag
input_process_idle ==
    /\ output' = [block |-> [i \in 1..BufferLen |-> Equilibrium], underflow |-> 0]
    /\ UNCHANGED <<buffer, delivered, producer, write_waker>>

\* InputNode::process up to its ring lock: the load of `running`, for which
\* no lock is held; with the flag clear the block is silenced and process
\* returns, the tick going on at `after`
input_load(after) ==
    IF running
    THEN /\ core_run' = [core_run EXCEPT !.pc = "input_lock", !.ran = TRUE]
         /\ UNCHANGED output
    ELSE /\ core_run' = [core_run EXCEPT !.pc = after, !.ran = FALSE]
         /\ output' = [block |-> [i \in 1..BufferLen |-> Equilibrium],
                       underflow |-> 0]

\* InputNode::process under the ring lock, which it takes once it has found
\* the flag set: what it does to the Input's ring and its block
input_process ==
    LET r == pop_block(buffer, BufferLen)
    IN /\ buffer' = r.buffer
       /\ output' = [block |-> r.block, underflow |-> r.underflow]
       /\ delivered' = delivered \o r.frames
       /\ producer' = wake(write_waker, producer)
       /\ write_waker' = None

\* a tick comes to the Input node: InputNode::process loads the flag
InputNodeLoad ==
    /\ core_run.pc = "interval"
    /\ input_load("interval")
    /\ UNCHANGED <<now, player_vars, pc, ret, cur, crash, room_vars, returned, inputs,
                   graph_vars, buffer, write_waker, producer, offered, delivered,
                   out_buffer, ticked, pulled, sources, enc_vars, pipe_vars>>

\* InputNode::process from the lock of the ring to its return
InputNodeProcess ==
    /\ core_run.pc = "input_lock"
    /\ input_process
    /\ core_run' = [core_run EXCEPT !.pc = "interval"]
    /\ UNCHANGED <<now, player_vars, pc, ret, cur, crash, room_vars, returned, inputs,
                   graph_vars, offered, out_buffer, ticked, pulled, sources, enc_vars,
                   pipe_vars>>

NextRing ==
    \/ SetRunning
    \/ AudioSourcePush
    \/ poll_ready
    \/ start_send
    \/ poll_write
    \/ InputNodeLoad
    \/ InputNodeProcess

SpecRing == InitRing /\ [][NextRing]_vars

\* Core::run ticks the graph at every interval, for ever
SpecRingFair == SpecRing /\ WF_vars(InputNodeLoad) /\ WF_vars(InputNodeProcess)

\* --------------------------------- the tick of one Input and one Output
\* Bounded::from(vec![[0.0; 2]; 8192]).max_len() of the Output's ring
OutputRingLen == OutputBlocks * BufferLen

\* OutputNode::process with output[idx][ch] = sample: the block of the last
\* input replaces what the inputs before it gave
mix_last(blocks, acc) ==
    IF blocks = <<>> THEN acc ELSE blocks[Len(blocks)]

RECURSIVE mix(_, _)
\* OutputNode::process: output[idx][ch] += sample over the blocks of all
\* inputs, starting from [0.0; 2]
mix(blocks, acc) ==
    IF blocks = <<>> THEN acc
    ELSE mix(Tail(blocks), [i \in 1..BufferLen |-> acc[i] + Head(blocks)[i]])

RECURSIVE push_block(_, _)
\* for el in output.iter() { shared.buffer.push(*el) }: the ring after the
\* pushes and what each push returned
push_block(b, frames) ==
    IF frames = <<>> THEN [buffer |-> b, rets |-> <<>>]
    ELSE LET r == push(b, Head(frames))
             rest == push_block(r.buffer, Tail(frames))
         IN [buffer |-> rest.buffer, rets |-> <<r.ret>> \o rest.rets]

\* what OutputNode::process counts of the values its pushes returned: it
\* discards them
overflow(rets) == 0

\* the ticks made so far and the missing frames the Input has warned of in
\* them; `ticked` holds the record of the latest tick
Ticks == IF ticked = <<>> THEN 0 ELSE ticked[1].n
Underflows == IF ticked = <<>> THEN 0 ELSE ticked[1].underflows
\* the ticks so far that found the Input running
TicksRunning == IF ticked = <<>> THEN 0 ELSE ticked[1].ran

\* a graph with one Output and one Input routed to it, nothing pushed
InitTick ==
    /\ NoPlayer
    /\ NoRoom
    /\ NoEncoder
    /\ NoPipe
    /\ graph = add_input_to(add_output(GraphNew), "add_input_to", Some(1))
    /\ default_output = Some(1)
    /\ core_poisoned = FALSE
    /\ inputs = <<FALSE>>
    /\ buffer = BoundedFrom(InputRingLen)
    /\ write_waker = None
    /\ producer = "idle"
    /\ offered = 0
    /\ output = [block |-> [i \in 1..BufferLen |-> Equilibrium], underflow |-> 0]
    /\ delivered = <<>>
    /\ returned = <<>>
    /\ out_buffer = BoundedFrom(OutputRingLen)
    /\ ticked = <<>>
    /\ pulled = <<>>
    /\ sources = <<>>
    /\ core_run = CoreIdle

\* Core::run after interval.tick(): CoreData::tick comes to the Input node,
\* whose process loads the flag
CoreTickLoad ==
    /\ Ticks < MaxTicks
    /\ core_run.pc = "interval"
    /\ input_load("output_lock")
    /\ UNCHANGED <<now, player_vars, inputs, pc, ret, cur, crash, room_vars, returned,
                   graph_vars, buffer, write_waker, producer, offered, delivered,
                   out_buffer, ticked, pulled, sources, enc_vars, pipe_vars>>

\* InputNode::process from the lock of the Input's ring to its return
CoreTickInput ==
    /\ core_run.pc = "input_lock"
    /\ input_process
    /\ core_run' = [core_run EXCEPT !.pc = "output_lock"]
    /\ UNCHANGED <<now, player_vars, inputs, pc, ret, cur, crash, room_vars, returned,
                   graph_vars, offered, out_buffer, ticked, pulled, sources, enc_vars,
                   pipe_vars>>

\* OutputNode::process under the lock of the Output's ring, the end of the
\* tick
CoreTickOutput ==
    /\ core_run.pc = "output_lock"
    /\ LET block == mix(<<output.block>>, [i \in 1..BufferLen |-> Equilibrium])
           r == push_block(out_buffer, block)
       IN /\ out_buffer' = r.buffer
          /\ ticked' = <<[n |-> Ticks + 1,
                          running |-> core_run.ran,
                          ran |-> TicksRunning + (IF core_run.ran THEN 1 ELSE 0),
                          underflow |-> output.underflow,
                          underflows |-> Underflows + output.underflow,
                          block |-> block,
                          rets |-> r.rets,
                          overflow |-> overflow(r.rets)]>>
    /\ core_run' = CoreIdle
    /\ UNCHANGED <<now, player_vars, inputs, pc, ret, cur, crash, room_vars, returned,
                   graph_vars, ring_vars, pulled, sources, enc_vars, pipe_vars>>

\* OutputSignal::next
OutputSignalNext ==
    /\ Len(pulled) < MaxPulls
    /\ LET r == pop(out_buffer)
       IN /\ out_buffer' = r.buffer
          /\ pulled' = Append(pulled, IF r.ret = None THEN Equilibrium ELSE r.ret[1])
    /\ UNCHANGED <<now, player_vars, inputs, pc, ret, cur, crash, room_vars, returned,
                   graph_vars, ring_vars, ticked, sources, core_run, enc_vars,
                   pipe_vars>>

\* AudioSource::push by a producer that has MaxWrite frames to give
PushFew ==
    /\ offered < MaxWrite
    /\ AudioSourcePush

NextTick ==
    \/ SetRunning
    \/ PushFew
    \/ CoreTickLoad
    \/ CoreTickInput
    \/ CoreTickOutput
    \/ OutputSignalNext

SpecTick == InitTick /\ [][NextTick]_vars

\* ------------------------------------- two Inputs and the Output they feed
\* the frame [0.0; 2] with its channels apart; a sample s stands for s / 2
Silence == <<0, 0>>

\* the constant frame the producer of each Input may write: [0.5, 0.5] into
\* the first Input, [-0.5, -0.5] or [0.0, -0.5] into the second
MixFrames == << {<<1, 1>>}, {<<-1, -1>>, <<0, -1>>} >>

\* the nodes with an edge into node n: neighbors_directed(n, Incoming)
Feeding(g, n) == {e[1] : e \in {d \in g.edges : d[2] = n}}

\* AudioSourceShared of the Input at NodeIndex n
SourceOf(n) == sources[n - 1]

RECURSIVE pop_frames(_, _)
\* for i in 0..n { data.buffer.pop() }, [0.0; 2] where the ring is empty
pop_frames(b, n) ==
    IF n = 0
    THEN [buffer |-> b, frames |-> <<>>, underflow |-> 0]
    ELSE LET r == pop(b)
             rest == pop_frames(r.buffer, n - 1)
         IN IF r.ret = None
            THEN [rest EXCEPT !.frames = <<Silence>> \o @, !.underflow = @ + 1]
            ELSE [rest EXCEPT !.frames = r.ret \o @]

\* the Buffers of an Input that is not running
SilentBuffers == [ch \in 1..2 |-> [i \in 1..BufferLen |-> 0]]

\* InputNode::process under the ring lock of the Input with state src: its
\* state afterwards and the two Buffers it fills, output[ch][i] = sample[ch]
process_input(src) ==
    LET r == pop_frames(src.buffer, BufferLen)
    IN [shared |-> [src EXCEPT !.buffer = r.buffer],
        buffers |-> [ch \in 1..2 |-> [i \in 1..BufferLen |-> r.frames[i][ch]]],
        underflow |-> r.underflow]

\* OutputNode::process: the frames it pushes, from the Buffers of its inputs
output_frames(ins) ==
    LET zero == [i \in 1..BufferLen |-> 0]
        chs == [ch \in 1..2 |-> mix([k \in 1..Len(ins) |-> ins[k][ch]], zero)]
    IN [i \in 1..BufferLen |-> <<chs[1][i], chs[2][i]>>]

\* the elements of a set of NodeIndex values, in ascending order
RECURSIVE Ascending(_)
Ascending(S) ==
    IF S = {} THEN <<>>
    ELSE LET m == CHOOSE x \in S : \A y \in S : x <= y
         IN <<m>> \o Ascending(S \ {m})

\* a sequence back to front
Reverse(s) == [i \in 1..Len(s) |-> s[Len(s) + 1 - i]]

\* the Inputs a tick processes before the Output, in the order it comes to
\* them: the Input added first is processed first
Fed == Ascending(Feeding(graph, 1))

\* the Inputs as OutputNode::process finds them in `inputs`: the one whose
\* edge was added last comes first
Incoming(ins) == Reverse(ins)

\* the Buffers handed to the Output in a tick are BufferLen frames
\* [-0.5, -0.5] of the second Input and BufferLen frames [0.5, 0.5] of the
\* first
Opposed(ins) ==
    /\ Len(ins) = 2
    /\ ins[1] = [ch \in 1..2 |-> [i \in 1..BufferLen |-> -1]]
    /\ ins[2] = [ch \in 1..2 |-> [i \in 1..BufferLen |-> 1]]

\* one Output and two Inputs, each routed to the Output or to nothing
InitMix ==
    /\ NoPlayer
    /\ NoRoom
    /\ NoEncoder
    /\ NoPipe
    /\ \E t1 \in {None, Some(1)}, t2 \in {None, Some(1)} :
         graph = add_input_to(add_input_to(add_output(GraphNew),
                                           "add_input_to", t1),
                              "add_input_to", t2)
    /\ default_output = Some(1)
    /\ core_poisoned = FALSE
    /\ inputs = <<FALSE>>
    /\ NoRing
    /\ out_buffer = BoundedFrom(OutputRingLen)
    /\ ticked = <<>>
    /\ pulled = <<>>
    /\ sources = [k \in 1..2 |-> [running |-> FALSE,
                                  buffer |-> BoundedFrom(InputRingLen)]]
    /\ core_run = CoreIdle

\* AudioSource::set_running on one of the Inputs
MixSetRunning ==
    /\ \E k \in 1..2, b \in BOOLEAN :
         /\ sources[k].running # b
         /\ sources' = [sources EXCEPT ![k].running = b]
    /\ UNCHANGED <<now, player_vars, inputs, pc, ret, cur, crash, room_vars, returned,
                   graph_vars, ring_vars, out_buffer, ticked, pulled, core_run, enc_vars,
                   pipe_vars>>

\* StreamWrite::poll_write on one of the Inputs with a slice of BufferLen
\* equal frames: as many of them as the ring has room for are pushed
MixWrite ==
    /\ offered < MaxMixWrites * BufferLen
    /\ \E k \in 1..2 : \E f \in MixFrames[k] :
         LET b == sources[k].buffer
             remaining == max_len(b) - b.len
             to_write == IF remaining < BufferLen THEN remaining ELSE BufferLen
         IN /\ ~is_full(b)
            /\ sources' = [sources EXCEPT
                              ![k].buffer = push_all(b, [i \in 1..to_write |-> f])]
            /\ offered' = offered + to_write
    /\ UNCHANGED <<now, player_vars, inputs, pc, ret, cur, crash, room_vars, returned,
                   graph_vars, buffer, write_waker, producer, output, delivered,
                   out_buffer, ticked, pulled, core_run, enc_vars, pipe_vars>>

\* the tick after the Input it is at: the next Input, or the Output; bufs are
\* the Buffers that Input was left with
AfterInput(k, bufs) ==
    IF k < Len(Fed)
    THEN [core_run EXCEPT !.pc = "input", !.k = k + 1, !.ins = Append(@, bufs)]
    ELSE [core_run EXCEPT !.pc = "output_lock", !.k = 0, !.ins = Append(@, bufs)]

\* Core::run after interval.tick(), or CoreData::tick after an Input: the
\* tick comes to the next Input that feeds the Output, whose process loads
\* the flag; with no Input it comes to the Output
MixTickLoad ==
    /\ \/ core_run.pc = "interval" /\ Ticks < MaxMixTicks
       \/ core_run.pc = "input"
    /\ LET k == IF core_run.pc = "interval" THEN 1 ELSE core_run.k
       IN IF Fed = <<>>
          THEN core_run' = [core_run EXCEPT !.pc = "output_lock"]
          ELSE IF SourceOf(Fed[k]).running
               THEN core_run' = [core_run EXCEPT !.pc = "input_lock", !.k = k]
               ELSE core_run' = AfterInput(k, SilentBuffers)
    /\ UNCHANGED <<now, player_vars, inputs, pc, ret, cur, crash, room_vars, returned,
                   graph_vars, ring_vars, out_buffer, ticked, pulled, sources, enc_vars,
                   pipe_vars>>

\* InputNode::process of the Input the tick is at, from the lock of its
\* ring to its return
MixTickInput ==
    /\ core_run.pc = "input_lock"
    /\ LET n == Fed[core_run.k]
           done == process_input(SourceOf(n))
       IN /\ sources' = [sources EXCEPT ![n - 1] = done.shared]
          /\ core_run' = AfterInput(core_run.k, done.buffers)
    /\ UNCHANGED <<now, player_vars, inputs, pc, ret, cur, crash, room_vars, returned,
                   graph_vars, ring_vars, out_buffer, ticked, pulled, enc_vars,
                   pipe_vars>>

\* OutputNode::process under the lock of the Output's ring, the end of the
\* tick
MixTickOutput ==
    /\ core_run.pc = "output_lock"
    /\ LET ins == Incoming(core_run.ins)
           block == output_frames(ins)
           r == push_block(out_buffer, block)
       IN /\ out_buffer' = r.buffer
          /\ ticked' = <<[n |-> Ticks + 1,
                          ins |-> ins,
                          block |-> block,
                          opposed |-> (IF ticked = <<>> THEN 0 ELSE ticked[1].opposed)
                                      + (IF Opposed(ins) THEN 1 ELSE 0)]>>
    /\ core_run' = CoreIdle
    /\ UNCHANGED <<now, player_vars, inputs, pc, ret, cur, crash, room_vars, returned,
                   graph_vars, ring_vars, pulled, sources, enc_vars, pipe_vars>>

NextMix ==
    \/ MixSetRunning
    \/ MixWrite
    \/ MixTickLoad
    \/ MixTickInput
    \/ MixTickOutput
    \/ OutputSignalNext

SpecMix == InitMix /\ [][NextMix]_vars

\* ------------------------------------------- a PlaylistTracker on its own
T3 == Track(3, <<"Local">>)
T4 == Track(4, <<"Local">>)
\* root [P1(T1, T2), P2(T3)]
NestedPlaylist ==
    [entries |-> <<ContentPlaylist([entries |-> <<ContentTrack(T1), ContentTrack(T2)>>]),
                   ContentPlaylist([entries |-> <<ContentTrack(T3)>>])>>]
\* the playlists a tracker is made over
TrackerPlaylists ==
    {PlaylistNew, [entries |-> <<ContentTrack(T1), ContentTrack(T2)>>], NestedPlaylist}

\* PlaylistTracker::new(playlist)
InitTracker ==
    /\ NoPlayer
    /\ NoGraph
    /\ NoRing
    /\ NoOutput
    /\ NoEncoder
    /\ NoPipe
    /\ inputs = <<>>
    /\ player = None
    /\ data_rx = None
    /\ loc_rx = None
    /\ room_events = <<>>
    /\ requests = <<>>
    /\ sent = 0
    /\ replies = <<>>
    /\ chan_open = FALSE
    /\ tracker \in {PlaylistTrackerNew(pl) : pl \in TrackerPlaylists}
    /\ returned = <<>>

\* what the tracker's caller does not touch
TrackerFrame ==
    UNCHANGED <<now, player_vars, inputs, pc, ret, cur, player, data_rx, loc_rx,
                room_events, requests, sent, replies, chan_open, audio_vars>>

\* PlaylistTracker::set_random
TrackerSetRandom ==
    /\ crash = "none"
    /\ \E b \in BOOLEAN : tracker' = [tracker EXCEPT !.random = b]
    /\ UNCHANGED <<crash, returned>>
    /\ TrackerFrame

\* a restart whose counter stops at u16::MAX
restart_saturating(t) ==
    [t EXCEPT !.iteration = IF @ = 65535 THEN 65535 ELSE @ + 1]

\* PlaylistTracker::restart: iteration.overflowing_add(1).0 on a u16
restart(t) == [t EXCEPT !.iteration = (@ + 1) % 65536]

\* PlaylistTracker::restart; iteration is a u16
TrackerRestart ==
    /\ crash = "none"
    /\ tracker.iteration < MaxRestarts
    /\ tracker' = restart(tracker)
    /\ UNCHANGED <<crash, returned>>
    /\ TrackerFrame

\* PlaylistTracker::next; a call that indexes out of bounds panics
TrackerNext ==
    /\ crash = "none"
    /\ Len(returned) < MaxCalls
    /\ \E pick \in NextPicks(tracker) :
         LET r == next(tracker, pick)
         IN /\ tracker' = r.tracker
            /\ returned' = Append(returned, [result |-> r.result, track |-> r.track,
                                             random |-> tracker.random])
            /\ crash' = IF r.result = "Panic" THEN "rng" ELSE crash
    /\ TrackerFrame

NextTracker ==
    \/ TrackerSetRandom
    \/ TrackerRestart
    \/ TrackerNext

SpecTracker == InitTracker /\ [][NextTracker]_vars

\* --------------------------------------- restarts of a long-lived tracker
\* the number of restarts in the log
Restarts == Cardinality({i \in 1..Len(returned) : returned[i].result = "Restart"})

\* a tracker over two or three tracks that was restarted 0 or u16::MAX
\* times before anything was played
InitRestart ==
    /\ NoPlayer
    /\ NoGraph
    /\ NoRing
    /\ NoOutput
    /\ NoEncoder
    /\ NoPipe
    /\ inputs = <<>>
    /\ player = None
    /\ data_rx = None
    /\ loc_rx = None
    /\ room_events = <<>>
    /\ requests = <<>>
    /\ sent = 0
    /\ replies = <<>>
    /\ chan_open = FALSE
    /\ \E pl \in TrackerPlaylists \ {PlaylistNew}, i \in {0, 65535} :
         tracker = [PlaylistTrackerNew(pl) EXCEPT !.iteration = i]
    /\ returned = <<>>

\* PlaylistTracker::restart, noted in the log of calls
TrackerRestartAny ==
    /\ crash = "none"
    /\ Len(returned) < MaxCalls
    /\ Restarts < MaxRestarts + 1
    /\ tracker' = restart(tracker)
    /\ returned' = Append(returned, [result |-> "Restart", track |-> None,
                                     random |-> tracker.random])
    /\ UNCHANGED crash
    /\ TrackerFrame

NextRestart ==
    \/ TrackerSetRandom
    \/ TrackerRestartAny
    \/ TrackerNext

SpecRestart == InitRestart /\ [][NextRestart]_vars

\* ------------------------------------------- nesting modes of a playlist
\* a root with a track, a sub-playlist without tracks (it holds an empty
\* playlist) and a sub-playlist of two tracks
SparsePlaylist ==
    [entries |-> <<ContentTrack(T1),
                   ContentPlaylist([entries |-> <<ContentPlaylist(PlaylistNew)>>]),
                   ContentPlaylist([entries |-> <<ContentTrack(T2), ContentTrack(T3)>>])>>]

\* PlaylistTracker::new over a playlist with sub-playlists
InitNesting ==
    /\ NoPlayer
    /\ NoGraph
    /\ NoRing
    /\ NoOutput
    /\ NoEncoder
    /\ NoPipe
    /\ inputs = <<>>
    /\ player = None
    /\ data_rx = None
    /\ loc_rx = None
    /\ room_events = <<>>
    /\ requests = <<>>
    /\ sent = 0
    /\ replies = <<>>
    /\ chan_open = FALSE
    /\ tracker \in {PlaylistTrackerNew(pl) : pl \in {NestedPlaylist, SparsePlaylist}}
    /\ returned = <<>>

\* object::Playlist::set_nesting_mode on the root playlist: todo!() panics
\* whatever the mode asked for
TrackerSetNestingMode ==
    /\ crash = "none"
    /\ Len(returned) < MaxCalls
    /\ \E mode \in {"Flatten", "RoundRobin"} :
         returned' = Append(returned, [result |-> mode, track |-> None,
                                       random |-> tracker.random])
    /\ crash' = "todo"
    /\ UNCHANGED tracker
    /\ TrackerFrame

NextNesting ==
    \/ TrackerSetRandom
    \/ TrackerRestart
    \/ TrackerNext
    \/ TrackerSetNestingMode

SpecNesting == InitNesting /\ [][NextNesting]_vars

\* ------------------------------------------ path mutations of a tracker
\* the parents offered: the root, entries of the root in and out of range,
\* and paths below them
Paths == {<<>>, <<0>>, <<1>>, <<2>>, <<0, 0>>, <<1, 1>>, <<1, 1, 0>>}

\* the calls made so far
Adds == IF returned = <<>> THEN 0 ELSE returned[1].n

\* a tracker over one of the playlists, nothing added yet
InitAdd == InitTracker

\* PlaylistTracker::add_track(track, parent); `returned` holds the outcome
\* of the latest call and its number
TrackerAddTrack ==
    /\ Adds < MaxAdds
    /\ \E track \in {T3, T4}, parent \in Paths :
         LET r == add_track(tracker, track, parent)
         IN /\ tracker' = r.tracker
            /\ returned' = <<[result |-> IF r.ok THEN "Ok" ELSE "Err", err |-> r.err,
                            content |-> ContentTrack(track), parent |-> parent, n |-> Adds + 1]>>
    /\ UNCHANGED crash
    /\ TrackerFrame

\* PlaylistTracker::add_playlist(playlist, parent)
TrackerAddPlaylist ==
    /\ Adds < MaxAdds
    /\ \E sub \in {PlaylistNew, [entries |-> <<ContentTrack(T4)>>]}, parent \in Paths :
         LET r == add_playlist(tracker, sub, parent)
         IN /\ tracker' = r.tracker
            /\ returned' = <<[result |-> IF r.ok THEN "Ok" ELSE "Err", err |-> r.err,
                            content |-> ContentPlaylist(sub), parent |-> parent, n |-> Adds + 1]>>
    /\ UNCHANGED crash
    /\ TrackerFrame

NextAdd ==
    \/ TrackerAddTrack
    \/ TrackerAddPlaylist

SpecAdd == InitAdd /\ [][NextAdd]_vars

\* ------------------------------------------- shuffle over a 4-track root
\* root [T1, T2, T3, T4]
FourTracks ==
    [entries |-> <<ContentTrack(T1), ContentTrack(T2), ContentTrack(T3), ContentTrack(T4)>>]

\* PlaylistTracker::new over the 4-track root: shuffle is on
InitShuffle ==
    /\ NoPlayer
    /\ NoGraph
    /\ NoRing
    /\ NoOutput
    /\ NoEncoder
    /\ NoPipe
    /\ inputs = <<>>
    /\ player = None
    /\ data_rx = None
    /\ loc_rx = None
    /\ room_events = <<>>
    /\ requests = <<>>
    /\ sent = 0
    /\ replies = <<>>
    /\ chan_open = FALSE
    /\ tracker = PlaylistTrackerNew(FourTracks)
    /\ returned = <<>>

NextShuffle ==
    \/ TrackerRestart
    \/ TrackerNext

SpecShuffle == InitShuffle /\ [][NextShuffle]_vars

\* ------------------------------------------------------ the encoder loop
\* a sample of the pipe is an f32; s stands for the value s / 65536, and a
\* frame is the pair of its two channels

\* conversion of a float to an integer with `as`: towards zero
Trunc(n, d) == IF n >= 0 THEN n \div d ELSE -((-n) \div d)

\* f32::to_sample::<i16>(): (s * 32768.0) as i16
to_sample(s) == clamp(Trunc(s, 2), -32768, 32767)

\* i16::scale_amp(0.1): (to_float_sample() * 0.1).to_sample()
scale_amp(x) == Trunc(x, 10)

\* Frame::channel(idx)
channel(frame, idx) == frame[idx + 1]

\* Encoder::encode: the payload stands for the encoding of these samples
encode(pcm) == [opus |-> pcm]

\* VoicePacketPayload::Opus(payload, terminator)
VoicePacketPayloadOpus(payload, terminator) ==
    [payload |-> payload, terminator |-> terminator]

\* the frames the encoder's pipe yields: silence, a left channel below one
\* i16 step, one that the attenuation brings to zero from either side, sound
\* on the right channel alone, and sound on both
FrameChoices == {<<0, 0>>, <<1, 0>>, <<18, 0>>, <<-18, 0>>, <<0, 38>>, <<-38, 38>>}

\* whether this iteration of the loop skips the block:
\* !(is_empty && last_was_empty) is false
skips(is_empty, last) == is_empty /\ last

\* encoder(voice_tx, pipe) up to its loop
InitEncoder ==
    /\ NoPlayer
    /\ NoRoom
    /\ NoGraph
    /\ NoRing
    /\ NoOutput
    /\ NoPipe
    /\ inputs = <<>>
    /\ last_was_empty = TRUE
    /\ pcm_buf = [i \in 1..PcmBufLen |-> 0]
    /\ taken = <<>>
    /\ voice_tx = VoiceChannel
    /\ enc_run = EncoderIdle

\* interval.tick().await returns: let mut is_empty = true, and the for loop
\* over the next pcm_buf.len() frames of the pipe begins
EncoderTick ==
    /\ enc_run.pc = "interval"
    /\ voice_tx.count < MaxPackets
    /\ enc_run' = [pc |-> "take", idx |-> 0, is_empty |-> TRUE, before |-> taken]
    /\ taken' = <<>>
    /\ UNCHANGED <<now, player_vars, inputs, pc, ret, cur, crash, room_vars, returned,
                   graph_vars, ring_vars, mix_vars, pipe_vars, last_was_empty, pcm_buf,
                   voice_tx>>

\* one pass of the for loop: the pipe's next() gives a frame, its sample goes
\* into pcm_buf[idx]; after the last frame the loop body goes on to the test
\* !(is_empty && last_was_empty), and either to encode() and the send or to
\* last_was_empty = is_empty
EncoderTake ==
    /\ enc_run.pc = "take"
    /\ \E frame \in FrameChoices :
         LET sample == scale_amp(to_sample(channel(frame, 0)))
             is_empty == enc_run.is_empty /\ sample = 0
             idx == enc_run.idx + 1
         IN /\ taken' = Append(taken, frame)
            /\ pcm_buf' = [pcm_buf EXCEPT ![idx] = sample]
            /\ IF idx < PcmBufLen
               THEN /\ enc_run' = [enc_run EXCEPT !.idx = idx, !.is_empty = is_empty]
                    /\ UNCHANGED last_was_empty
               ELSE IF skips(is_empty, last_was_empty)
                    THEN /\ enc_run' = [enc_run EXCEPT !.pc = "interval", !.idx = idx,
                                                      !.is_empty = is_empty]
                         /\ last_was_empty' = is_empty
                    ELSE /\ enc_run' = [enc_run EXCEPT !.pc = "send", !.idx = idx,
                                                      !.is_empty = is_empty]
                         /\ UNCHANGED last_was_empty
    /\ UNCHANGED <<now, player_vars, inputs, pc, ret, cur, crash, room_vars, returned,
                   graph_vars, ring_vars, mix_vars, pipe_vars, voice_tx>>

\* voice_tx.send(packet).await completes: with the receiver gone it returns
\* Err, which is discarded; with room in the channel the packet is queued;
\* on a full channel the task waits here; then last_was_empty = is_empty
EncoderSend ==
    /\ enc_run.pc = "send"
    /\ IF ~voice_tx.open
       THEN UNCHANGED voice_tx
       ELSE /\ Len(voice_tx.queue) < VoiceChannelLen
            /\ LET packet == VoicePacketPayloadOpus(encode(pcm_buf), enc_run.is_empty)
               IN voice_tx' = [voice_tx EXCEPT !.queue = Append(@, packet),
                                               !.count = @ + 1,
                                               !.last = Some(packet)]
    /\ last_was_empty' = enc_run.is_empty
    /\ enc_run' = [enc_run EXCEPT !.pc = "interval"]
    /\ UNCHANGED <<now, player_vars, inputs, pc, ret, cur, crash, room_vars, returned,
                   graph_vars, ring_vars, mix_vars, pipe_vars, pcm_buf, taken>>

\* voice_rx.recv() in handle_messages yields the oldest packet
VoiceRecv ==
    /\ voice_tx.open
    /\ voice_tx.queue # <<>>
    /\ voice_tx' = [voice_tx EXCEPT !.queue = Tail(@)]
    /\ UNCHANGED <<now, player_vars, inputs, pc, ret, cur, crash, room_vars, returned,
                   graph_vars, ring_vars, mix_vars, pipe_vars, last_was_empty, pcm_buf,
                   taken, enc_run>>

\* handle_messages leaves its loop and returns: voice_rx is dropped with the
\* packets still queued, the detached encoder task runs on
VoiceRxDrop ==
    /\ voice_tx.open
    /\ voice_tx' = [voice_tx EXCEPT !.open = FALSE, !.queue = <<>>]
    /\ UNCHANGED <<now, player_vars, inputs, pc, ret, cur, crash, room_vars, returned,
                   graph_vars, ring_vars, mix_vars, pipe_vars, last_was_empty, pcm_buf,
                   taken, enc_run>>

NextEncoder ==
    \/ EncoderTick
    \/ EncoderTake
    \/ EncoderSend
    \/ VoiceRecv
    \/ VoiceRxDrop

SpecEncoder == InitEncoder /\ [][NextEncoder]_vars

\* ------------------------------------------- the byte pipe of buffer.rs
\* min
Min(a, b) == IF a < b THEN a ELSE b

\* a Drop for BufferInput / poll_shutdown that wakes the pending reader
close_waking(sh, rd) ==
    [shared |-> [sh EXCEPT !.closed = TRUE, !.read_notify = None],
     reader |-> IF sh.read_notify # None /\ rd = "pending" THEN "woken" ELSE rd]

\* BufferInput::poll_shutdown and Drop for BufferInput: shared.closed = true
close(sh, rd) == [shared |-> [sh EXCEPT !.closed = TRUE], reader |-> rd]

\* new_buffer(buf_size): the two ends, each held by a task of its own
InitPipe ==
    /\ NoPlayer
    /\ NoRoom
    /\ NoGraph
    /\ NoRing
    /\ NoOutput
    /\ NoEncoder
    /\ inputs = <<>>
    /\ shared = [buffer |-> <<>>, closed |-> FALSE, write_notify |-> None,
                 read_notify |-> None]
    /\ writer = "idle"
    /\ reader = "idle"
    /\ written = 0

\* what the byte pipe's tasks do not touch
PipeFrame ==
    UNCHANGED <<now, player_vars, inputs, pc, ret, cur, crash, room_vars, returned,
                graph_vars, ring_vars, mix_vars, enc_vars>>

\* the writer's task is polled: BufferInput::poll_write with a slice of k
\* bytes, the bytes numbered as they are written
PipePollWrite ==
    /\ writer \in {"idle", "woken"}
    /\ \E k \in 1..MaxSlice :
         /\ written + k <= MaxPipeBytes
         /\ IF Len(shared.buffer) < BufSize
            THEN LET to_write == Min(k, BufSize - Len(shared.buffer))
                 IN /\ shared' = [shared EXCEPT
                                    !.buffer = @ \o [i \in 1..to_write |-> written + i],
                                    !.read_notify = None]
                    /\ reader' = IF shared.read_notify # None /\ reader = "pending"
                                 THEN "woken" ELSE reader
                    /\ written' = written + to_write
                    /\ writer' = "idle"
            ELSE /\ shared' = [shared EXCEPT !.write_notify = Some("writer")]
                 /\ writer' = "pending"
                 /\ UNCHANGED <<reader, written>>
    /\ PipeFrame

\* the writer shuts the pipe down (poll_shutdown) or drops its end (Drop)
PipeClose ==
    /\ writer \in {"idle", "woken", "pending"}
    /\ ~shared.closed
    /\ LET r == close(shared, reader)
       IN /\ shared' = r.shared
          /\ reader' = r.reader
    /\ writer' = "gone"
    /\ UNCHANGED written
    /\ PipeFrame

\* the reader's task is polled: BufferOutput::poll_read into a ReadBuf with
\* k bytes remaining
PipePollRead ==
    /\ reader \in {"idle", "woken"}
    /\ \E k \in 1..MaxSlice :
         IF shared.buffer # <<>>
         THEN LET to_read == Min(k, Len(shared.buffer))
              IN /\ shared' = [shared EXCEPT
                                 !.buffer = SubSeq(@, to_read + 1, Len(@)),
                                 !.write_notify = None]
                 /\ writer' = IF shared.write_notify # None /\ writer = "pending"
                              THEN "woken" ELSE writer
                 /\ reader' = "idle"
         ELSE IF shared.closed
         THEN /\ reader' = "eof"
              /\ UNCHANGED <<shared, writer>>
         ELSE /\ shared' = [shared EXCEPT !.read_notify = Some("reader")]
              /\ reader' = "pending"
              /\ UNCHANGED writer
    /\ UNCHANGED written
    /\ PipeFrame

NextPipe ==
    \/ PipePollWrite
    \/ PipeClose
    \/ PipePollRead

SpecPipe == InitPipe /\ [][NextPipe]_vars

\* a task that can be polled is polled: the executor runs every task that
\* is ready or was woken
SpecPipeFair ==
    SpecPipe /\ WF_vars(PipePollRead) /\ WF_vars(PipePollWrite)

\* ------------------------------------------------------------ claims
\* C1: when the controller has handled Play through skip() on a room that had
\* no Player and a track was selected, the new Player has been started (its
\* decoder task exists), so that Playing follows TrackChanged.
C1_PlayStartsTrack ==
    (pc = "reply" /\ cur.op = "Play" /\ cur.skipped /\ player # None)
        => (is_playing \/ task_pc # "none")

\* C2: when the controller has handled Paused{stopped=true} through skip() and
\* the playlist yielded a track, the replacing Player has been started.
C2_EofStartsNextTrack ==
    (pc = "forward" /\ cur.op = "event" /\ cur.ev[1].stopped /\ player # None)
        => (is_playing \/ task_pc # "none")

\* C3: in the room's event stream no Paused{stopped=true} of a Player comes
\* after the TrackChanged of a Player created later.
C3_PausedBeforeTrackChanged ==
    \A i, j \in 1..Len(room_events) :
        ( /\ i < j
          /\ room_events[i].type = "TrackChanged"
          /\ room_events[j].type = "PlayerEvent"
          /\ room_events[j].ev.type = "Paused"
          /\ room_events[j].ev.stopped )
        => room_events[j].node >= room_events[i].node

\* C4: no request's callback is dropped without its reply: every request sent
\* through the proxy is answered with the result of that request.
C4_EveryRequestReplied ==
    \A i \in DOMAIN replies : replies[i] # "canceled"

\* C5: a failure of media_path() or of the probe in Player::new during skip()
\* does not end the controller.
C5_MediaFailureSkipped ==
    crash \notin {"media_fetch", "media_probe"}

\* C6: when the controller receives the Paused event of a decoder failure
\* (the Err arm of the task), it goes on to skip() as on a normal track end.
C6_DecoderFailureSkips ==
    [][ ( /\ RecvPlayerEvent \/ RecvPlayerStopped
          /\ Head(loc_rx[1].queue).type = "Paused"
          /\ Head(loc_rx[1].queue).arm = "err" )
        => pc' = "skip" ]_vars

\* C7 as stated: play() on an Idle player (no playing_state) spawns one
\* decoder task that starts the decoder exactly at the current offset and
\* leaves is_playing() true; that task sets Input.running and emits Playing
\* whose pos is the offset.
C7_PlayStartsDecoderAtOffset ==
    [][ /\ (CallPlay /\ playing_state = None) =>
              /\ task_pc \in {"none", "done"}
              /\ task_pc' = "start"
              /\ task_ss' * UnitsPerSec = position
              /\ is_playing'
              /\ playing_state' = Some([playing_since |-> now])
              /\ position' = position
        /\ (task_pc = "start" /\ task_pc' = "select") =>
              /\ running'
              /\ player_events' = Append(player_events, Playing(now, position))
              /\ is_playing \/ pc \in {"pause_send", "pause_join", "panicked"}
      ]_vars

\* C7 amended: play() on an Idle player (no playing_state) spawns one decoder
\* task that starts the decoder at the whole seconds of the current offset
\* and leaves is_playing() true; that task sets Input.running and emits
\* Playing whose pos is the offset itself.
C7_PlayStartsDecoder ==
    [][ /\ (CallPlay /\ playing_state = None) =>
              /\ task_pc \in {"none", "done"}
              /\ task_pc' = "start"
              /\ task_ss' = position \div UnitsPerSec
              /\ is_playing'
              /\ playing_state' = Some([playing_since |-> now])
              /\ position' = position
        /\ (task_pc = "start" /\ task_pc' = "select") =>
              /\ running'
              /\ player_events' = Append(player_events, Playing(now, position))
              /\ is_playing \/ pc \in {"pause_send", "pause_join", "panicked"}
      ]_vars

\* C7 witness: a decoder started by a second play() at an offset that is not
\* a whole number of seconds has set running and emitted Playing with that
\* offset, its -ss being the seconds below it.
C7_Witness ==
    /\ pc = "idle"
    /\ cur.op = "play"
    /\ task_pc = "select"
    /\ running
    /\ is_playing
    /\ position % UnitsPerSec # 0
    /\ task_ss * UnitsPerSec < position
    /\ Last(player_events) = Playing(now, position)

\* C8: pause() on a Playing player does not fail, and when it returns the
\* decoder task has emitted Paused{stopped=false} with pos the new offset,
\* Input.running is false and the player is Idle.
C8_PauseOnPlaying ==
    [][ /\ (pc = "pause_send") => (pc' # "panicked")
        /\ (pc = "pause_join" /\ pc' # "pause_join") =>
              /\ Last(player_events).type = "Paused"
              /\ Last(player_events).stopped = FALSE
              /\ Last(player_events).pos = position
              /\ ~running'
              /\ ~is_playing'
              /\ playing_state' = None
      ]_vars

\* C9: when the decoder task ends with EOF it adds the elapsed time to the
\* offset, emits Paused{stopped=true} with the new offset and leaves the
\* player Idle.
C9_EofStops ==
    [][ (task_pc = "finish" /\ task_pc' = "done" /\ task_r = "eof") =>
          /\ playing_state # None
          /\ position' = position + (now - playing_state[1].playing_since)
          /\ player_events' = Append(player_events, Paused(now, position', TRUE, "ok"))
          /\ ~is_playing'
          /\ playing_state' = None
      ]_vars

\* C9 witness: a play() that ran for some time ended by EOF, no pause().
C9_Witness ==
    /\ pc = "idle"
    /\ cur.op = "play"
    /\ task_pc = "done"
    /\ task_r = "eof"
    /\ position > 0
    /\ Last(player_events) = Paused(now, position, TRUE, "ok")
    /\ ~is_playing

\* C10: pause() on a player whose tracker is absent (as after a completed
\* pause()) returns at once: no event, offset, running and Idle unchanged.
C10_PauseIdempotent ==
    [][ (pc = "pause" /\ ~is_playing /\ pc' # pc) =>
          /\ pc' = Head(ret)
          /\ UNCHANGED <<position, inputs, player_events, playing_state,
                         playing_tracker, task_pc, cancel>>
      ]_vars

\* C10 witness: a second pause() directly after a pause() on a Playing player
\* has returned.
C10_Witness ==
    /\ pc = "idle"
    /\ cur.op = "pause_again"
    /\ Len(player_events) >= 2
    /\ ~running
    /\ position > 0

\* C11: when the decoder subprocess cannot be spawned, the play attempt
\* leaves the player Idle: once the task has finished, is_playing() is false,
\* Input.running is false and the attempt has emitted no Playing event (the
\* event before the task's last one is not its Playing).
C11_SpawnFailureLeavesIdle ==
    (task_pc = "done" /\ task_r = "spawn_err") =>
        /\ ~is_playing
        /\ ~running
        /\ \A i \in 1..(Len(player_events) - 1) :
              (i = Len(player_events) - 1) => player_events[i].type # "Playing"

\* C12: in every step that is not a seek setting the offset, position() does
\* not decrease, and it keeps its value when the player is Idle (no
\* playing_state) before the step.
C12_PositionMonotonic ==
    [][ ~(seek_set \/ seek_play) =>
          /\ position_of' >= position_of
          /\ (playing_state = None) => (position_of' = position_of) ]_vars

\* C12 witness: a player that was paused at a non-zero offset and plays
\* again, with time passed since: position() is above the stored offset, and
\* the task's end has folded elapsed time into the offset before.
C12_Witness ==
    /\ playing_state # None
    /\ position > 0
    /\ position_of > position
    /\ Len(player_events) >= 2
    /\ player_events[2].type = "Paused"
    /\ cur.op = "play"

\* C13: position() never exceeds length(), Playing or Idle.
C13_PositionWithinLength == position_of <= duration

\* C14: seek(t) on an Idle player sets the offset to clamp(t, 0, length) and
\* emits nothing; seek(t) on a Playing player gets through its pause(), sets
\* the offset to clamp(t, 0, length) and plays again, so that is_playing() is
\* true and the next Playing event carries pos = clamp(t, 0, length).
C14_Seek ==
    [][ LET target == IF cur.pos > duration THEN duration ELSE cur.pos
        IN /\ seek_set =>
                 /\ position' = target
                 /\ player_events' = player_events
                 /\ UNCHANGED <<playing_state, playing_tracker, task_pc>>
           /\ (cur.op = "seek_playing" /\ pc = "pause_send") => pc' # "panicked"
           /\ seek_play =>
                 /\ position' = target
                 /\ is_playing'
                 /\ task_pc' = "start"
           /\ (cur.op = "seek_playing" /\ pc = "idle" /\ TaskStart) =>
                 player_events' = Append(player_events, Playing(now, target))
      ]_vars

\* C15: the ring's len stays within 0..max_len, every push raises len by
\* exactly the one frame it enqueues (poll_write: by the frames it wrote),
\* and a tick lowers len by exactly the frames it popped.
C15_RingLenExact ==
    [][ /\ buffer'.len \in 0..max_len(buffer')
        /\ (AudioSourcePush \/ start_send) => buffer'.len = buffer.len + 1
        /\ poll_write => buffer'.len = buffer.len + (offered' - offered)
        /\ InputNodeProcess =>
              buffer'.len = buffer.len - (Len(delivered') - Len(delivered))
      ]_vars

\* a sequence of frames in the order they were pushed, none twice
InPushOrder(fs) == \A i, j \in 1..Len(fs) : i < j => fs[i] < fs[j]

\* C16: the frames handed to the mixer, followed by those still in the ring,
\* are in the order they were pushed and none occurs twice; a tick that
\* found the Input running writes the oldest frames of the ring, in order,
\* into its block; and k <= remaining frames pushed onto the ring come out, after the
\* frames already queued, as the same frames in the same order.
C16_RingFifo ==
    [][ /\ InPushOrder(delivered' \o Contents(buffer'))
        /\ InputNodeProcess =>
              LET c == Contents(buffer)
                  n == IF Len(c) < BufferLen THEN Len(c) ELSE BufferLen
              IN /\ delivered' = delivered \o SubSeq(c, 1, n)
                 /\ output'.block =
                       SubSeq(c, 1, n) \o [i \in 1..(BufferLen - n) |-> Equilibrium]
                 /\ Contents(buffer') = SubSeq(c, n + 1, Len(c))
        /\ \A k \in 0..(max_len(buffer') - buffer'.len) :
              LET fs == Frames(offered', k)
                  b == push_all(buffer', fs)
              IN pop_block(b, b.len).frames = Contents(buffer') \o fs
      ]_vars

\* C16 witness: frames reached the mixer over more than one tick while the
\* producer kept pushing, and the ring has wrapped around its last slot.
C16_Witness ==
    /\ Len(delivered) > BufferLen
    /\ buffer.len >= 2
    /\ buffer.start + buffer.len > max_len(buffer)
    /\ output.block[1] # Equilibrium

Successors(g, S) == {e[2] : e \in {d \in g.edges : d[1] \in S}}
RECURSIVE ReachFrom(_, _, _)
ReachFrom(g, S, k) ==
    IF k = 0 THEN S ELSE ReachFrom(g, S \cup Successors(g, S), k - 1)
Acyclic(g) ==
    \A n \in NodeIndices(g) :
        n \notin ReachFrom(g, Successors(g, {n}), Len(g.nodes))

\* the Input nodes, and the first Output ever created
Inputs(g) == {n \in NodeIndices(g) : NodeAt(g, n).kind = "Input"}
FirstOutput(g) == CHOOSE n \in Outputs(g) : \A m \in Outputs(g) : n <= m

\* the target an Input was made with is a node that was in the graph when
\* the call was made
KnownTarget(g, n) == NodeAt(g, n).target = None \/ NodeAt(g, n).target[1] < n

\* C18 as stated: the graph is acyclic, bottom has no outgoing edge, and
\* every Output node has exactly one outgoing edge, the one to bottom.
C18_GraphShape ==
    /\ Acyclic(graph)
    /\ Outgoing(graph, bottom) = {}
    /\ \A n \in Outputs(graph) : Outgoing(graph, n) = {<<n, bottom>>}

\* C18 amended: bottom has no outgoing edge and every Output node has
\* exactly one outgoing edge, the one to bottom; the graph is acyclic when
\* every target given to add_input_to was a node of the graph at the time of
\* the call, and it has a cycle, the edge of an Input to itself, exactly
\* when add_input_to was given the index its new node got.
C18_GraphShapeOfKnownTargets ==
    /\ Outgoing(graph, bottom) = {}
    /\ \A n \in Outputs(graph) : Outgoing(graph, n) = {<<n, bottom>>}
    /\ (\A n \in Inputs(graph) : KnownTarget(graph, n)) => Acyclic(graph)
    /\ ~Acyclic(graph) <=>
          \E n \in Inputs(graph) :
              NodeAt(graph, n).target = Some(n) /\ <<n, n>> \in graph.edges

\* C18 witness: two Outputs, an Input routed to the second of them, and an
\* Input routed to another Input, every target a node known at the call.
C18_Witness ==
    /\ Cardinality(Outputs(graph)) >= 2
    /\ \A n \in Inputs(graph) : KnownTarget(graph, n)
    /\ \E e \in graph.edges :
         /\ NodeAt(graph, e[1]).kind = "Input"
         /\ e[2] \in Outputs(graph)
         /\ default_output # Some(e[2])
    /\ \E e \in graph.edges : e[1] \in Inputs(graph) /\ e[2] \in Inputs(graph)

\* C19 as stated: every Input node has exactly one outgoing edge, to an
\* Output node: the first Output ever created if add_input made the node, the
\* given target if add_input_to did.
C19_InputHasOneEdge ==
    \A n \in Inputs(graph) :
        \E t \in Outputs(graph) :
            /\ Outgoing(graph, n) = {<<n, t>>}
            /\ NodeAt(graph, n).via = "add_input" => t = FirstOutput(graph)
            /\ NodeAt(graph, n).via = "add_input_to" => NodeAt(graph, n).target = Some(t)

\* the Input was made by add_input, or by add_input_to with None or with an
\* Output node as target
RoutedToOutput(g, n) ==
    \/ NodeAt(g, n).via = "add_input"
    \/ NodeAt(g, n).target = None
    \/ NodeAt(g, n).target[1] \in Outputs(g)

\* C19 amended: every Input node has at most one outgoing edge. An Input
\* made by add_input has the edge to the first Output ever created if an
\* Output existed when it was made, and no edge otherwise; an Input made by
\* add_input_to has no edge if it was given no target, and the edge to its
\* target if that was a node of the graph; so the edge of an Input made by
\* add_input, or by add_input_to with an Output node as target, leads to an
\* Output node.
C19_InputHasAtMostOneEdge ==
    /\ default_output =
          (IF Outputs(graph) = {} THEN None ELSE Some(FirstOutput(graph)))
    /\ \A n \in Inputs(graph) :
          /\ Cardinality(Outgoing(graph, n)) <= 1
          /\ RoutedToOutput(graph, n) =>
                \A e \in Outgoing(graph, n) : e[2] \in Outputs(graph)
          /\ NodeAt(graph, n).via = "add_input" =>
                Outgoing(graph, n) =
                   (IF \E o \in Outputs(graph) : o < n
                    THEN {<<n, FirstOutput(graph)>>} ELSE {})
          /\ NodeAt(graph, n).via = "add_input_to" =>
                Outgoing(graph, n) =
                   (IF NodeAt(graph, n).target = None
                       \/ NodeAt(graph, n).target[1] \notin NodeIndices(graph)
                    THEN {}
                    ELSE {<<n, NodeAt(graph, n).target[1]>>})

\* C19 witness: an Input made by add_input before any Output that has no
\* edge, one made by add_input after two Outputs that leads to the first,
\* and one made by add_input_to that leads to the second Output, its target.
C19_Witness ==
    /\ Cardinality(Outputs(graph)) >= 2
    /\ \E n \in Inputs(graph) :
         NodeAt(graph, n).via = "add_input" /\ Outgoing(graph, n) = {}
    /\ \E n \in Inputs(graph) :
         /\ NodeAt(graph, n).via = "add_input"
         /\ Outgoing(graph, n) = {<<n, FirstOutput(graph)>>}
    /\ \E n \in Inputs(graph), t \in Outputs(graph) :
         /\ NodeAt(graph, n).via = "add_input_to"
         /\ NodeAt(graph, n).target = Some(t)
         /\ t # FirstOutput(graph)
         /\ Outgoing(graph, n) = {<<n, t>>}

\* C20: in sequential mode with a non-empty choice set next() always returns
\* a track; called after the last entry of the iteration it returns
\* available[0] and bumps the iteration; and on root [P1(T1, T2), P2(T3)] six
\* sequential calls return T1, T2, T3, T1, T2, T3.
C20_SequentialWrapsAround ==
    [][ LET available == collect_choices(<<>>, tracker.playlist)
            lp == LastPlayed(tracker)
            at_end == /\ lp # <<>>
                      /\ Last(lp)[1] = tracker.iteration
                      /\ Last(lp)[2] = available[Len(available)]
        IN (TrackerNext /\ ~tracker.random /\ available # <<>>) =>
              /\ Last(returned').result = "Track"
              /\ at_end =>
                    /\ Last(returned').track = get_track(tracker.playlist, available[1])
                    /\ tracker'.iteration = tracker.iteration + 1
              /\ ( /\ tracker.playlist = NestedPlaylist
                   /\ Len(returned') = 6
                   /\ \A i \in 1..6 : ~returned'[i].random ) =>
                    [i \in 1..6 |-> returned'[i].track] =
                       <<Some(T1), Some(T2), Some(T3), Some(T1), Some(T2), Some(T3)>>
      ]_vars

\* C21: on a fresh tracker (no restart, empty history) over a non-empty
\* Flatten tree with n track leaves, the first n next() calls, all of them
\* sequential, return the n leaves in tree order, hence each leaf exactly once.
C21_SequentialVisitsEachLeaf ==
    LET available == collect_choices(<<>>, tracker.playlist)
        n == Len(available)
    IN ( /\ n > 0
         /\ tracker.iteration = 0
         /\ Len(returned) >= n
         /\ \A i \in 1..n : ~returned[i].random ) =>
           /\ \A i \in 1..n :
                 /\ returned[i].result = "Track"
                 /\ returned[i].track = get_track(tracker.playlist, available[i])
           /\ \A i, j \in 1..n : i # j => available[i] # available[j]

\* three sequential calls over root [P1(T1, T2), P2(T3)] have returned
C21_Witness ==
    /\ tracker.playlist = NestedPlaylist
    /\ tracker.iteration = 0
    /\ Len(returned) = 3
    /\ \A i \in 1..3 : ~returned[i].random
    /\ returned[3].track = Some(T3)

\* C22: every next(), random or sequential, that selects a path selects one
\* of the current choice set which get_track resolves to the Track returned,
\* and select_next_random(n, last) yields an index within 0..n-1 for every
\* draw, never indexing `last` out of range.
C22_NextSelectsFromChoices ==
    [][ LET available == collect_choices(<<>>, tracker.playlist)
            n == Len(available)
            r == Last(returned')
        IN TrackerNext =>
             /\ r.result # "Panic"
             /\ (tracker.random /\ n > 0) =>
                   \A pick \in Picks(n, Indices(tracker)) :
                      LET idx == select_next_random(n, Indices(tracker), pick)
                      IN idx # None /\ idx[1] \in 0..(n - 1)
             /\ r.result = "Track" =>
                   \E i \in 1..n :
                      /\ r.track = get_track(tracker.playlist, available[i])
                      /\ r.track # None
                      /\ Last(LastPlayed(tracker'))[2] = available[i]
      ]_vars

\* C23: with shuffle on over root [T1, T2, T3, T4] on a fresh tracker, the
\* first three next() calls return tracks of the root, pairwise distinct.
C23_FirstThreeDistinct ==
    LET k == IF Len(returned) < 3 THEN Len(returned) ELSE 3
    IN /\ \A i \in 1..k :
            /\ returned[i].random
            /\ returned[i].result = "Track"
            /\ returned[i].track \in {Some(T1), Some(T2), Some(T3), Some(T4)}
       /\ \A i, j \in 1..k : i # j => returned[i].track # returned[j].track

RECURSIVE Addressable(_, _)
\* every index of the path is in range and every component is a playlist
Addressable(pl, path) ==
    \/ path = <<>>
    \/ /\ path[1] < Len(pl.entries)
       /\ pl.entries[path[1] + 1].kind = "Playlist"
       /\ Addressable(pl.entries[path[1] + 1].playlist, Tail(path))

\* path a is a prefix of path b
IsPrefix(a, b) == Len(a) <= Len(b) /\ \A i \in 1..Len(a) : a[i] = b[i]

\* C24: add_track(track, parent) and add_playlist(sub, parent) return the
\* inserted value back as Err and leave the tree unchanged when an index of
\* parent is out of range or a component of parent addresses a Track;
\* otherwise they return Ok and the value is the new last entry of the
\* playlist at parent, nothing else of the tree having changed.
C24_AddAppendsOrReturns ==
    [][ (TrackerAddTrack \/ TrackerAddPlaylist) =>
          LET r == returned'[1]
              old == tracker.playlist
              new == tracker'.playlist
              value == IF r.content.kind = "Track" THEN r.content.track
                       ELSE r.content.playlist
          IN IF ~Addressable(old, r.parent)
             THEN /\ r.result = "Err"
                  /\ r.err = Some(value)
                  /\ new = old
             ELSE /\ r.result = "Ok"
                  /\ r.err = None
                  /\ get_playlist(new, r.parent) =
                        Some([entries |->
                                Append(get_playlist(old, r.parent)[1].entries, r.content)])
                  /\ \A q \in UNION {[1..d -> 0..3] : d \in 1..3} :
                        /\ (~IsPrefix(q, r.parent) /\ ~IsPrefix(r.parent, q)) =>
                              get_entry(new, q) = get_entry(old, q)
                        /\ (IsPrefix(q, r.parent) /\ q # r.parent) =>
                              Len(get_playlist(new, q)[1].entries) =
                                 Len(get_playlist(old, q)[1].entries)
                  /\ Len(new.entries) = Len(old.entries) + (IF r.parent = <<>> THEN 1 ELSE 0)
      ]_vars

\* both outcomes have happened: a playlist was added below P2 of the nested
\* root, and then a track offered through a Track component came back
C24_Witness ==
    /\ returned # <<>>
    /\ returned[1].n = 2
    /\ returned[1].result = "Err"
    /\ returned[1].parent = <<0, 0>>
    /\ returned[1].err = Some(T3)
    /\ get_playlist(tracker.playlist, <<1, 1>>) = Some(PlaylistNew)

\* C25: when skip() has come to get_next() and next() returns NoTracks or
\* End, the controller goes on to send TrackCleared, and that send leaves the
\* room with no Player and no decoder task: the taken Player's task, if it
\* ran, has been joined.
C25_NoTrackClears ==
    [][ /\ ( /\ pc = "skip_next"
             /\ pc' # pc
             /\ \A pick \in NextPicks(tracker) :
                   next(tracker, pick).result \in {"NoTracks", "End"} ) =>
                /\ pc' = "skip_cleared"
                /\ crash' = "none"
                /\ player' = None
        /\ (pc = "skip_cleared" /\ pc' # pc) =>
                /\ room_events' = Append(room_events, TrackCleared)
                /\ crash' = "none"
                /\ player' = None
                /\ data_rx' = None
                /\ task_pc' \in {"none", "done"}
                /\ ~playing_tracker'
                /\ playing_state' = None
      ]_vars

\* a skip() that took a playing Player, cancelled its decoder and found no
\* track has emitted TrackCleared
C25_Witness ==
    /\ cur.had_player
    /\ cur.playing
    /\ pc = "reply"
    /\ room_events # <<>>
    /\ Last(room_events) = TrackCleared
    /\ player = None
    /\ task_pc = "done"
    /\ task_r = "cancel"

\* C26: when the controller leaves its loop because the request channel is
\* closed, every message sent has been handled, the decoder of the Player is
\* cancelled if one is running, and the controller task has terminated.
C26_CloseDrainsCancelsExits ==
    [][ RoomExit =>
          /\ \A i \in DOMAIN replies : replies[i] = "ok"
          /\ pc' = "exited"
          /\ player' = None
          /\ task_pc \in {"start", "select"} => cancel' \in {"sent", "dropped"}
      ]_vars

\* C27: once the controller has processed AddPlaylist(pl) the caller has
\* received success and the room's playlist holds pl as the last entry of the
\* playlist the message addresses, the root.
C27_AddPlaylistInserts ==
    [][ HandleAddPlaylist =>
          LET msg == Head(requests)
              entries == tracker'.playlist.entries
          IN /\ replies'[msg.id] = "ok"
             /\ entries # <<>>
             /\ Last(entries) = ContentPlaylist(msg.arg[1])
             /\ Len(entries) = Len(tracker.playlist.entries) + 1
      ]_vars

\* a block of frames that are all [0.0, 0.0]
\* the sample the encoder makes of one channel of a frame: converted to i16
\* and attenuated
Encoded(frame, ch) == scale_amp(to_sample(channel(frame, ch)))

\* a block whose samples are all zero: each channel of each of its stereo
\* frames gives the sample 0
AllZero(block) ==
    \A i \in 1..Len(block) : \A ch \in 0..1 : Encoded(block[i], ch) = 0

\* the step in which the encoder takes the last frame of a block
BlockTaken == EncoderTake /\ enc_run'.pc # "take"

\* C28: in the encoder loop a block whose samples are all zero is not sent
\* when the block before it was all zero too, or when it is the first block;
\* the first all-zero block after a block with a non-zero sample is sent
\* with the terminator flag set; every block with a non-zero sample is sent
\* with the flag clear. Sending is the send on the voice channel while its
\* receiver is alive.
C28_SilenceSuppressed ==
    [][ /\ BlockTaken =>
              LET first == enc_run.before = <<>>
              IN IF AllZero(taken') /\ (first \/ AllZero(enc_run.before))
                 THEN enc_run'.pc = "interval" /\ voice_tx' = voice_tx
                 ELSE enc_run'.pc = "send"
        /\ (EncoderSend /\ voice_tx.open) =>
              /\ voice_tx'.count = voice_tx.count + 1
              /\ voice_tx'.last[1].terminator = AllZero(taken)
      ]_vars

\* C29: a tick that found its Input running takes min(B, len) frames off
\* its ring, oldest first, writes them into its block followed by
\* B - min(B, len) equilibrium frames, and counts B - min(B, len) missing
\* frames; and when the Input ran in every tick, nothing was pushed to it
\* and nothing was read from the Output, after k ticks that fit its ring (5
\* in the scenario) the Output ring holds k * B equilibrium frames and k * B
\* missing frames have been counted.
C29_InputTick ==
    /\ [][ /\ (CoreTickLoad /\ running) => core_run'.pc = "input_lock"
           /\ CoreTickInput =>
                LET m == IF buffer.len < BufferLen THEN buffer.len ELSE BufferLen
                IN /\ buffer'.len = buffer.len - m
                   /\ Contents(buffer) =
                         [i \in 1..m |-> output'.block[i]] \o Contents(buffer')
                   /\ output'.block =
                         [i \in 1..BufferLen |->
                             IF i <= m THEN Contents(buffer)[i] ELSE Equilibrium]
                   /\ output'.underflow = BufferLen - m
           /\ CoreTickOutput =>
                /\ ticked'[1].underflow = output.underflow
                /\ ticked'[1].block = output.block
        ]_vars
    /\ []( ( /\ offered = 0
             /\ pulled = <<>>
             /\ TicksRunning = Ticks
             /\ Ticks <= OutputBlocks ) =>
               /\ Contents(out_buffer) = [i \in 1..(Ticks * BufferLen) |-> Equilibrium]
               /\ Underflows = Ticks * BufferLen )

\* five ticks of a running Input that was never pushed to
C29_Witness ==
    /\ offered = 0
    /\ pulled = <<>>
    /\ Ticks = 5
    /\ TicksRunning = 5
    /\ out_buffer.len = 5 * BufferLen
    /\ Underflows = 5 * BufferLen

\* the pushes of a tick that returned a frame
Refused(rets) == Cardinality({i \in 1..Len(rets) : rets[i] # None})

\* C30: on every tick the Output node offers exactly B mixed frames to its
\* ring, and the frames the ring took without giving one back plus the
\* overflow counted in that tick make B: every push the full ring answers
\* with a frame is counted as overflow.
C30_OverflowCounted ==
    [][ CoreTickOutput =>
          LET t == ticked'[1]
          IN /\ Len(t.block) = BufferLen
             /\ Len(t.rets) = BufferLen
             /\ (BufferLen - Refused(t.rets)) + t.overflow = BufferLen
      ]_vars

\* what the Input with state src hands to the Output at sample position i,
\* channel ch, when its ring is popped: the i-th oldest frame of its ring if
\* it has one, else 0.0
SampleOf(src, i, ch) ==
    IF i <= src.buffer.len THEN Contents(src.buffer)[i][ch] ELSE 0

RECURSIVE SumOver(_, _, _)
\* the sum of sample i, channel ch over the Buffers ins
SumOver(ins, i, ch) ==
    IF ins = <<>> THEN 0 ELSE Head(ins)[ch][i] + SumOver(Tail(ins), i, ch)

\* C31: the frame an Output pushes at sample position i of a tick is, per
\* channel, the sum of sample i over the blocks of all nodes with an edge
\* into the Output, [0.0, 0.0] when no node has one, the block of an Input
\* being the oldest frames of its ring if the tick found it running and
\* silence if not; over ticks in which two Inputs hand over [0.5, 0.5] and
\* [-0.5, -0.5] frames the Output ring holds [0.0, 0.0] frames only.
C31_OutputMixesInputs ==
    /\ [][ /\ MixTickInput =>
                \A i \in 1..BufferLen : \A ch \in 1..2 :
                   Last(core_run'.ins)[ch][i] =
                      SampleOf(SourceOf(Fed[core_run.k]), i, ch)
           /\ (MixTickLoad /\ Fed # <<>> /\ core_run'.pc # "input_lock") =>
                Last(core_run'.ins) = SilentBuffers
           /\ MixTickOutput =>
                /\ Len(core_run.ins) = Cardinality(Feeding(graph, 1))
                /\ \A i \in 1..BufferLen : \A ch \in 1..2 :
                     ticked'[1].block[i][ch] = SumOver(core_run.ins, i, ch)
                /\ Contents(out_buffer') = Contents(out_buffer) \o ticked'[1].block
         ]_vars
    /\ []( (ticked # <<>> /\ pulled = <<>> /\ ticked[1].opposed = Ticks) =>
             Contents(out_buffer) = [i \in 1..(Ticks * BufferLen) |-> Silence] )

\* two ticks over two running Inputs holding opposite frames, nothing read
C31_Witness ==
    /\ ticked # <<>>
    /\ Ticks = 2
    /\ ticked[1].opposed = 2
    /\ pulled = <<>>
    /\ Len(ticked[1].ins) = 2
    /\ ticked[1].ins[1] = <<[i \in 1..BufferLen |-> -1], [i \in 1..BufferLen |-> -1]>>
    /\ ticked[1].ins[2] = <<[i \in 1..BufferLen |-> 1], [i \in 1..BufferLen |-> 1]>>
    /\ Contents(out_buffer) = [i \in 1..(2 * BufferLen) |-> Silence]

\* C32: Skip releases the Input of the Player it replaces: at most one Input
\* made for the room's Players is attached to the room's Output, and no
\* Input of a replaced Player runs, so none contributes to the mix.
C32_SkipReleasesInput ==
    /\ Len(inputs) <= 1
    /\ \A i \in 1..(Len(inputs) - 1) : ~inputs[i]

\* C33: while the room has no Player the player branch of the controller's
\* select! is never ready: the controller takes no player event, so it
\* performs no Skip and emits no event before the next request.
C33_NoPlayerNoPlayerEvent ==
    [][ player = None =>
          ~(RecvPlayerStopped \/ RecvPlayerEvent \/ RecvPlayerClosed) ]_vars

\* the paths of a history, and a history without the entries of path p
PathsOf(h) == [i \in 1..Len(h) |-> h[i][2]]
Without(h, p) == SelectSeq(h, LAMBDA e : e[2] # p)
\* no path occurs twice
NoDuplicates(s) == \A i, j \in 1..Len(s) : s[i] = s[j] => i = j

\* C34: after every selection the root history is a recency list without
\* duplicate paths: its last element is the path just chosen, tagged with
\* the current iteration, the entries before it are the earlier history
\* without that path, in their order; its length never exceeds the size of
\* the choice set.
C34_HistoryIsRecencyList ==
    /\ []( /\ NoDuplicates(PathsOf(LastPlayed(tracker)))
           /\ Len(LastPlayed(tracker)) <= Len(collect_choices(<<>>, tracker.playlist)) )
    /\ [][ (TrackerNext /\ Last(returned').result = "Track") =>
             LET h == LastPlayed(tracker')
                 chosen == Last(h)
             IN /\ h # <<>>
                /\ chosen[1] = tracker.iteration
                /\ get_track(tracker.playlist, chosen[2]) = Last(returned').track
                /\ SubSeq(h, 1, Len(h) - 1) = Without(LastPlayed(tracker), chosen[2])
         ]_vars

\* a path chosen again moved to the end of a history of two or more paths:
\* more tracks were returned than the history holds
C34_Witness ==
    /\ Len(LastPlayed(tracker)) >= 2
    /\ Cardinality({i \in 1..Len(returned) : returned[i].result = "Track"})
         > Len(LastPlayed(tracker))
    /\ Last(returned).result = "Track"
    /\ Last(LastPlayed(tracker))[1] = tracker.iteration

\* C35: restart() sets iteration to (iteration + 1) mod 2^16, 65535 wrapping
\* to 0 without failure, and leaves the history alone; the sequential next()
\* that follows a restart returns available[0] whatever the history holds,
\* while for a shuffled next() every path of the history still counts as
\* recently played: it is indexed as such and no unweighted draw picks it.
C35_RestartWraps ==
    /\ [][ TrackerRestartAny =>
             /\ tracker'.iteration = (tracker.iteration + 1) % 65536
             /\ LastPlayed(tracker') = LastPlayed(tracker)
             /\ crash' = "none"
         ]_vars
    /\ [][ (TrackerNext /\ returned # <<>> /\ Last(returned).result = "Restart"
              /\ ~tracker.random) =>
             /\ Last(returned').result = "Track"
             /\ Last(returned').track =
                  get_track(tracker.playlist, collect_choices(<<>>, tracker.playlist)[1])
         ]_vars
    /\ []( (returned # <<>> /\ Last(returned).result = "Restart") =>
             /\ Len(Indices(tracker)) = Len(LastPlayed(tracker))
             /\ \A pick \in Picks(Len(collect_choices(<<>>, tracker.playlist)),
                                  Indices(tracker)) :
                  ~pick.weighted =>
                    LET chosen == LastPlayed(next([tracker EXCEPT !.random = TRUE],
                                                  pick).tracker)
                    IN \A i \in 1..Len(LastPlayed(tracker)) :
                         LastPlayed(tracker)[i][2] # Last(chosen)[2] )

\* iteration has wrapped from 65535 to 0 over a history that ends in the
\* second choice, and the sequential next() after it returned the first
C35_Witness ==
    /\ Len(returned) >= 3
    /\ returned[Len(returned) - 1].result = "Restart"
    /\ Last(returned).result = "Track"
    /\ ~Last(returned).random
    /\ tracker.iteration = 0
    /\ Len(LastPlayed(tracker)) >= 2
    /\ \E i \in 1..(Len(LastPlayed(tracker)) - 1) : LastPlayed(tracker)[i][1] = 65535
    /\ Last(LastPlayed(tracker)) =
         <<0, collect_choices(<<>>, tracker.playlist)[1]>>

RECURSIVE HasTrack(_)
\* the playlist holds a track, at whatever depth
HasTrack(pl) ==
    \E i \in 1..Len(pl.entries) :
        \/ pl.entries[i].kind = "Track"
        \/ (pl.entries[i].kind = "Playlist" /\ HasTrack(pl.entries[i].playlist))

\* one choice per immediate child of pl that is a track or holds one
ChildChoices(pl) ==
    SelectSeq([i \in 1..Len(pl.entries) |-> <<i - 1>>],
              LAMBDA p : \/ pl.entries[p[1] + 1].kind = "Track"
                         \/ HasTrack(pl.entries[p[1] + 1].playlist))

\* C36: a playlist can be given the nesting mode RoundRobin, and its choice
\* set then holds one choice per immediate child, namely each track and each
\* sub-playlist that recursively holds a track, and none for a sub-playlist
\* that is recursively empty.
C36_RoundRobinChoices ==
    [][ (TrackerSetNestingMode /\ Last(returned').result = "RoundRobin") =>
          /\ crash' = "none"
          /\ collect_choices(<<>>, tracker'.playlist) = ChildChoices(tracker'.playlist)
      ]_vars

\* C37: Player::pause completes without failure in every interleaving with
\* the decoder task: when it sends the cancel signal the channel is not
\* closed, and the caller does not panic in the send.
C37_PauseNeverFails ==
    /\ pc = "pause_send" => cancel # "closed"
    /\ crash # "pause_send"

\* C38: whenever a Player is idle, no decoder task running and no call in
\* progress, the running flag of its Input is false: after a pause and
\* equally after a decoder EOF or a decoder error.
C38_IdleInputStopped ==
    (pc = "idle" /\ task_pc \in {"none", "done"}) => ~running

\* C39: a decoder task is spawned only when the Player has none running, so
\* at most one holds the Input; the events of a Player alternate Playing,
\* Paused, Playing, ... starting with Playing, over any sequence of play,
\* pause, seek and decoder EOF or error; play() on a Player that is playing
\* spawns nothing and emits nothing.
C39_OneTaskAlternatingEvents ==
    /\ []( \A i \in 1..Len(player_events) :
             player_events[i].type = (IF i % 2 = 1 THEN "Playing" ELSE "Paused") )
    /\ [][ (CallPlay \/ seek_play) =>
             IF playing_state # None
             THEN UNCHANGED <<playing_state, playing_tracker, task_pc, task_r,
                              task_position, task_now, task_ss, cancel, player_events>>
             ELSE /\ task_pc \in {"none", "done"}
                  /\ task_pc' = "start"
                  /\ UNCHANGED player_events
         ]_vars

\* Playing, Paused and Playing again were sent, and play() was then called
\* on the playing Player
C39_Witness ==
    /\ Len(player_events) = 3
    /\ player_events[3].type = "Playing"
    /\ cur.op = "play_noop"
    /\ pc = "idle"
    /\ task_pc = "select"

\* the reader waits on the empty pipe after the writer has closed it
ReaderStuck == reader = "pending" /\ shared.closed /\ shared.buffer = <<>>

\* the buffered length never exceeds buf_size
PipeLengthBounded == Len(shared.buffer) <= BufSize

\* a read that frees space wakes the writer pending on the full buffer
PipeWriterWoken ==
    [][ (PipePollRead /\ writer = "pending"
           /\ Len(shared'.buffer) < Len(shared.buffer)) => writer' = "woken" ]_vars

\* C40: in the byte pipe of new_buffer a reader left pending on an empty
\* buffer is eventually woken and completes with EOF once the writer has
\* shut down or dropped its end; a writer left pending on a full buffer is
\* woken by the read that frees space; the buffered length never exceeds
\* buf_size.
C40_PipeWakesAndBounds ==
    /\ []PipeLengthBounded
    /\ PipeWriterWoken
    /\ (ReaderStuck ~> reader = "eof")

====
